---- MODULE Spec2Model ----
(***************************************************************************)
(* Fraud detection engine of the festival platform: the FraudDetector      *)
(* orchestrator (fraud_detector.py), the rule / classifier pattern engine  *)
(* (pattern_recognition.py), the statistical anomaly engine                *)
(* (anomaly_detection.py) and the risk scorer (risk_scorer.py).            *)
(*                                                                         *)
(* Numbers.  Risk scores, factor scores and thresholds are floats in the   *)
(* source.  Here every score is an integer number of hundredths of a point *)
(* (Pts(75) = 7500 stands for 75.0), anomaly scores in [0,1] are integers  *)
(* in 0..10000, weights are integers in hundredths and a division that is  *)
(* not exact is rounded down.  Time is in whole seconds.                   *)
(*                                                                         *)
(* Enum identity.  fraud_detector.py and pattern_recognition.py each       *)
(* define their own class FraudType(Enum).  Members of two different Enum  *)
(* classes never compare equal in Python, so a fraud type is modelled as   *)
(* the pair <<defining module, member name>>.                              *)
(***************************************************************************)
EXTENDS Integers, Sequences, FiniteSets, TLC

\* A score of n points in hundredths of a point.
Pts(n) == n * 100

\* Python's None for the optional string fields of TransactionData.
None == "None"

\* Python truthiness of an optional string: None and "" are falsy.
Truthy(s) == s /= None /\ s /= ""

Min(a, b) == IF a <= b THEN a ELSE b

Max(a, b) == IF a >= b THEN a ELSE b

Abs(a) == IF a >= 0 THEN a ELSE 0 - a

RECURSIVE SeqSum(_)
SeqSum(s) == IF s = <<>> THEN 0 ELSE Head(s) + SeqSum(Tail(s))

RECURSIVE SeqMax(_)
SeqMax(s) == IF Len(s) = 1 THEN s[1] ELSE Max(Head(s), SeqMax(Tail(s)))

\* s[-n:] of Python: the last n elements of s.
LastN(s, n) == IF Len(s) <= n THEN s ELSE SubSeq(s, Len(s) - n + 1, Len(s))

SeqToSet(s) == {s[i] : i \in DOMAIN s}

(***************************************************************************)
(* Enumerations                                                            *)
(***************************************************************************)

FraudTypeNames ==
    {"duplicate_ticket", "falsified_ticket", "abnormal_transaction",
     "multiple_accounts", "suspicious_behavior", "illegal_resale",
     "velocity_abuse", "geolocation_fraud", "device_fraud", "payment_fraud"}

\* fraud_detector.FraudType.<name>
FraudType(name) == <<"fraud_detector", name>>

\* pattern_recognition.FraudType.<name>
PatternFraudType(name) == <<"pattern_recognition", name>>

\* The member name of a fraud type of either class (ft.value).
FraudTypeValue(ft) == ft[2]

FraudAction == {"allow", "flag", "review", "block", "alert_security"}

RiskLevel == {"low", "medium", "high", "critical"}

(***************************************************************************)
(* FraudDetector: thresholds and the action policy                        *)
(***************************************************************************)

THRESHOLD_FLAG == 30

THRESHOLD_REVIEW == 50

THRESHOLD_BLOCK == 75

THRESHOLD_ALERT == 60

critical_types ==
    {FraudType("duplicate_ticket"), FraudType("falsified_ticket"),
     FraudType("payment_fraud")}

\* A mutant of determine_action: REVIEW also sets should_block.
determine_action_review_blocks(risk_score, fraud_types) ==
    IF \E i \in DOMAIN fraud_types : fraud_types[i] \in critical_types
    THEN [action |-> "block", should_block |-> TRUE, alert_required |-> TRUE]
    ELSE IF risk_score >= Pts(THRESHOLD_BLOCK)
    THEN [action |-> "block", should_block |-> TRUE, alert_required |-> TRUE]
    ELSE IF risk_score >= Pts(THRESHOLD_REVIEW)
    THEN [action |-> "review", should_block |-> TRUE,
          alert_required |-> risk_score >= Pts(THRESHOLD_ALERT)]
    ELSE IF risk_score >= Pts(THRESHOLD_FLAG)
    THEN [action |-> "flag", should_block |-> FALSE, alert_required |-> FALSE]
    ELSE [action |-> "allow", should_block |-> FALSE, alert_required |-> FALSE]

\* A mutant of determine_action: the alert of a REVIEW starts at the review
\* threshold instead of THRESHOLD_ALERT.
determine_action_alert_on_review(risk_score, fraud_types) ==
    IF \E i \in DOMAIN fraud_types : fraud_types[i] \in critical_types
    THEN [action |-> "block", should_block |-> TRUE, alert_required |-> TRUE]
    ELSE IF risk_score >= Pts(THRESHOLD_BLOCK)
    THEN [action |-> "block", should_block |-> TRUE, alert_required |-> TRUE]
    ELSE IF risk_score >= Pts(THRESHOLD_REVIEW)
    THEN [action |-> "review", should_block |-> FALSE, alert_required |-> TRUE]
    ELSE IF risk_score >= Pts(THRESHOLD_FLAG)
    THEN [action |-> "flag", should_block |-> FALSE, alert_required |-> FALSE]
    ELSE [action |-> "allow", should_block |-> FALSE, alert_required |-> FALSE]

\* FraudDetector._determine_action: (action, should_block, alert_required).
determine_action(risk_score, fraud_types) ==
    IF \E i \in DOMAIN fraud_types : fraud_types[i] \in critical_types
    THEN [action |-> "block", should_block |-> TRUE, alert_required |-> TRUE]
    ELSE IF risk_score >= Pts(THRESHOLD_BLOCK)
    THEN [action |-> "block", should_block |-> TRUE, alert_required |-> TRUE]
    ELSE IF risk_score >= Pts(THRESHOLD_REVIEW)
    THEN [action |-> "review", should_block |-> FALSE,
          alert_required |-> risk_score >= Pts(THRESHOLD_ALERT)]
    ELSE IF risk_score >= Pts(THRESHOLD_FLAG)
    THEN [action |-> "flag", should_block |-> FALSE, alert_required |-> FALSE]
    ELSE [action |-> "allow", should_block |-> FALSE, alert_required |-> FALSE]

(***************************************************************************)
(* RiskScorer                                                              *)
(***************************************************************************)

THRESHOLD_LOW == 30

THRESHOLD_MEDIUM == 50

THRESHOLD_HIGH == 75

\* A mutant of get_risk_level: strict comparisons.
get_risk_level_strict(score) ==
    IF score > Pts(THRESHOLD_HIGH) THEN "critical"
    ELSE IF score > Pts(THRESHOLD_MEDIUM) THEN "high"
    ELSE IF score > Pts(THRESHOLD_LOW) THEN "medium"
    ELSE "low"

\* RiskScorer._get_risk_level
get_risk_level(score) ==
    IF score >= Pts(THRESHOLD_HIGH) THEN "critical"
    ELSE IF score >= Pts(THRESHOLD_MEDIUM) THEN "high"
    ELSE IF score >= Pts(THRESHOLD_LOW) THEN "medium"
    ELSE "low"

\* dict.get(key, default) on a dict modelled as a function.
Get(d, key, default) == IF key \in DOMAIN d THEN d[key] ELSE default

\* The empty dict.
EmptyDict == [k \in {} |-> 0]

\* d.update(e): the keys of e override those of d.
Update(d, e) ==
    [k \in DOMAIN d \cup DOMAIN e |-> IF k \in DOMAIN e THEN e[k] ELSE d[k]]

RiskFactor ==
    {"anomaly_score", "pattern_match", "velocity", "amount", "timing",
     "device", "location", "account_age", "history", "manual_flag"}

\* risk_scorer.DEFAULT_WEIGHTS, in hundredths.
DEFAULT_WEIGHTS ==
    [f \in RiskFactor |->
        CASE f = "anomaly_score" -> 25
          [] f = "pattern_match" -> 20
          [] f = "velocity" -> 15
          [] f = "amount" -> 10
          [] f = "timing" -> 5
          [] f = "device" -> 10
          [] f = "location" -> 5
          [] f = "account_age" -> 5
          [] f = "history" -> 5
          [] f = "manual_flag" -> 0]

\* The anomaly signals _score_anomaly reads, in the order it reads them.
AnomalyKeys == <<"isolation_forest", "autoencoder", "amount", "velocity", "timing">>

\* RiskScorer._score_anomaly: 0.6 * max + 0.4 * mean of the scores present.
score_anomaly(anomaly_scores) ==
    LET present == SelectSeq(AnomalyKeys, LAMBDA k : k \in DOMAIN anomaly_scores)
        scores == [i \in DOMAIN present |-> anomaly_scores[present[i]]]
        n == Len(scores)
    IN  IF n = 0 THEN 0
        ELSE (6 * n * SeqMax(scores) + 4 * SeqSum(scores)) \div (10 * n)

\* severity_weights of _score_patterns, in tenths; unknown severities weigh 0.4.
severity_weight(severity) ==
    CASE severity = "critical" -> 10
      [] severity = "high" -> 7
      [] severity = "medium" -> 4
      [] severity = "low" -> 2
      [] OTHER -> 4

\* RiskScorer._score_patterns; a pattern's confidence is in hundredths.
score_patterns(patterns) ==
    LET contrib == [i \in DOMAIN patterns |->
                       patterns[i].confidence * severity_weight(patterns[i].severity) * 10]
    IN  IF patterns = <<>> THEN 0 ELSE Min(Pts(100), SeqSum(contrib))

\* RiskScorer._score_velocity, from the counts carried in data.metadata.
score_velocity(data) ==
    LET tx_count_1h == Get(data.metadata, "tx_count_1h", 0)
        tx_count_5min == Get(data.metadata, "tx_count_5min", 0)
        burst == IF tx_count_5min > 5 THEN 50 ELSE IF tx_count_5min > 3 THEN 30 ELSE 0
        hourly == IF tx_count_1h > 20 THEN 50 ELSE IF tx_count_1h > 10 THEN 25 ELSE 0
    IN  Min(Pts(100), Pts(burst + hourly))

\* A _score_amount without the round-amount bonus.
score_amount_tier_only(data) ==
    IF data.amount = <<>> THEN 0
    ELSE LET amount == data.amount[1]
             tier == IF amount > 100000 THEN 80
                     ELSE IF amount > 50000 THEN 50
                     ELSE IF amount > 20000 THEN 20
                     ELSE 0
         IN  Min(Pts(100), Pts(tier))

\* RiskScorer._score_amount; data.amount is <<>> for None, else <<cents>>.
score_amount(data) ==
    IF data.amount = <<>> THEN 0
    ELSE LET amount == data.amount[1]
             tier == IF amount > 100000 THEN 80
                     ELSE IF amount > 50000 THEN 50
                     ELSE IF amount > 20000 THEN 20
                     ELSE 0
             round == IF amount % 100 = 0 /\ amount > 5000 THEN 10 ELSE 0
         IN  Min(Pts(100), Pts(tier + round))

\* datetime.hour of a timestamp in seconds.
HourOf(ts) == (ts \div 3600) % 24

\* RiskScorer._score_timing
score_timing(data) ==
    LET hour == HourOf(data.timestamp)
    IN  IF 2 <= hour /\ hour <= 5 THEN Pts(50)
        ELSE IF 5 < hour /\ hour < 7 THEN Pts(20)
        ELSE 0

\* RiskScorer._score_device
score_device(data) ==
    LET new == IF Get(data.metadata, "is_new_device", 0) /= 0 THEN 30 ELSE 0
        users_per_device == Get(data.metadata, "users_per_device", 1)
        shared == IF users_per_device > 3 THEN 50
                  ELSE IF users_per_device > 2 THEN 25 ELSE 0
    IN  Min(Pts(100), Pts(new + shared))

\* RiskScorer._score_location
score_location(data) ==
    LET new == IF Get(data.metadata, "is_new_location", 0) /= 0 THEN 20 ELSE 0
        distance == Get(data.metadata, "distance_from_usual_km", 0)
        far == IF distance > 500 THEN 60 ELSE IF distance > 100 THEN 30 ELSE 0
    IN  Min(Pts(100), Pts(new + far))

\* RiskScorer._score_account_age
score_account_age(data) ==
    LET account_age_hours == Get(data.metadata, "account_age_hours", 9999)
    IN  IF account_age_hours < 1 THEN Pts(80)
        ELSE IF account_age_hours < 24 THEN Pts(50)
        ELSE IF account_age_hours < 72 THEN Pts(25)
        ELSE 0

\* RiskScorer._score_history; profiles maps a user id to its UserRiskProfile
\* (fraud_count, days since the last fraud or -1, trust score in hundredths).
score_history(data, profiles) ==
    IF data.user_id \notin DOMAIN profiles THEN 0
    ELSE LET profile == profiles[data.user_id]
             prior == IF profile.fraud_count > 0 THEN 50 ELSE 0
             recent == IF profile.days_since_fraud < 0 THEN 0
                       ELSE IF profile.days_since_fraud < 30 THEN 30
                       ELSE IF profile.days_since_fraud < 90 THEN 15
                       ELSE 0
             trust == IF profile.trust_score < 30 THEN 30
                      ELSE IF profile.trust_score < 50 THEN 15
                      ELSE 0
         IN  Min(Pts(100), Pts(prior + recent + trust))

\* The factor scores of calculate_score (risk_scorer.py lines 184-199).
risk_factors(data, anomaly_scores, pattern_matches, profiles) ==
    [f \in RiskFactor |->
        CASE f = "anomaly_score" -> score_anomaly(anomaly_scores)
          [] f = "pattern_match" -> score_patterns(pattern_matches)
          [] f = "velocity" -> score_velocity(data)
          [] f = "amount" -> score_amount(data)
          [] f = "timing" -> score_timing(data)
          [] f = "device" -> score_device(data)
          [] f = "location" -> score_location(data)
          [] f = "account_age" -> score_account_age(data)
          [] f = "history" -> score_history(data, profiles)
          [] f = "manual_flag" ->
                IF Get(data.metadata, "flagged", 0) /= 0 THEN Pts(100) ELSE 0]

RECURSIVE SumOver(_, _)
SumOver(f, S) ==
    IF S = {} THEN 0
    ELSE LET x == CHOOSE y \in S : TRUE IN f[x] + SumOver(f, S \ {x})

\* The weighted sum of calculate_score with the weights as normalised by
\* RiskScorer.__init__: divided by their total when the total is positive.
weighted_score(factors, weights) ==
    LET total_weight == SumOver(weights, RiskFactor)
        products == [f \in RiskFactor |-> factors[f] * weights[f]]
    IN  IF total_weight > 0
        THEN SumOver(products, RiskFactor) \div total_weight
        ELSE SumOver(products, RiskFactor) \div 100

\* RiskScorer._apply_calibration; score_shift is in hundredths of a point and
\* score_scale in hundredths.
apply_calibration(raw_score, calibration_params) ==
    ((raw_score + calibration_params.score_shift) * calibration_params.score_scale) \div 100

\* A mutant of final_score: the boost is added after the clamp.
final_score_boost_after_clamp(calibrated_score, fraud_types) ==
    Max(0, Min(Pts(100), calibrated_score))
        + (IF fraud_types /= <<>> THEN Pts(Min(Len(fraud_types) * 10, 30)) ELSE 0)

\* The boost and the clamp of calculate_score (risk_scorer.py lines 210-216).
final_score(calibrated_score, fraud_types) ==
    LET boosted == IF fraud_types /= <<>>
                   THEN Min(Pts(100), calibrated_score + Pts(Min(Len(fraud_types) * 10, 30)))
                   ELSE calibrated_score
    IN  Max(0, Min(Pts(100), boosted))

\* RiskScorer._calculate_confidence, in hundredths.
calculate_confidence(factors, patterns) ==
    LET non_zero_factors == Cardinality({f \in RiskFactor : factors[f] > 0})
    IN  Min(100, 50 + Min(30, non_zero_factors * 5) + Min(20, Len(patterns) * 10))

\* RiskScorer.calculate_score: the RiskScore (score, level, confidence).
calculate_score(data, fraud_types, anomaly_scores, pattern_matches, weights, calibration_params, profiles) ==
    LET factors == risk_factors(data, anomaly_scores, pattern_matches, profiles)
        raw_score == weighted_score(factors, weights)
        calibrated_score == apply_calibration(raw_score, calibration_params)
        score == final_score(calibrated_score, fraud_types)
    IN  [score |-> score,
         level |-> get_risk_level(score),
         confidence |-> calculate_confidence(factors, pattern_matches),
         factors |-> factors]

(***************************************************************************)
(* AnomalyDetector: the statistical part of detect().  The isolation       *)
(* forest and the autoencoder are untrained after construction and then    *)
(* contribute no score (anomaly_detection.py lines 535-546).               *)
(***************************************************************************)

\* _global_stats['amount_mean'] of the constructor, in cents.
AMOUNT_MEAN == 5000

\* _global_stats['amount_std'] of the constructor, in cents.
AMOUNT_STD == 3000

HOUR_S == 3600

DAY_S == 86400

\* The features of _extract_features that the statistical checks read.
\* |amount - mean| is kept in place of the z-score: the z-score is below k
\* exactly when the distance is at most k * std, because the divisor is
\* std + 1e-10.
extract_features(data, tx_history) ==
    LET user_txs == Get(tx_history, data.user_id, <<>>)
        amount == IF data.amount = <<>> THEN 0 ELSE data.amount[1]
        hour == HourOf(data.timestamp)
    IN  [amount |-> amount,
         amount_distance |-> Abs(amount - AMOUNT_MEAN),
         is_night |-> hour >= 22 \/ hour < 6,
         seconds_since_last_tx |->
            IF user_txs /= <<>>
            THEN data.timestamp - user_txs[Len(user_txs)].timestamp
            ELSE 999999 * 60,
         tx_count_1h |-> Len(SelectSeq(user_txs,
                            LAMBDA tx : tx.timestamp > data.timestamp - HOUR_S)),
         tx_count_24h |-> Len(SelectSeq(user_txs,
                            LAMBDA tx : tx.timestamp > data.timestamp - DAY_S))]

\* AnomalyDetector._statistical_checks, as the set of AnomalyType names.
statistical_checks(features) ==
    (IF features.amount_distance > 3 * AMOUNT_STD THEN {"amount"} ELSE {})
    \cup (IF features.tx_count_1h > 30 THEN {"velocity"} ELSE {})
    \cup (IF features.is_night /\ features.tx_count_24h < 5 THEN {"timing"} ELSE {})

\* AnomalyDetector._score_amount_anomaly, in 0..10000.
score_amount_anomaly(features) ==
    LET d == features.amount_distance
    IN  IF d <= AMOUNT_STD THEN 0
        ELSE IF d <= 2 * AMOUNT_STD THEN 3000
        ELSE IF d <= 3 * AMOUNT_STD THEN 6000
        ELSE Min(10000, 6000 + ((d - 3 * AMOUNT_STD) * 1000) \div AMOUNT_STD)

\* AnomalyDetector._score_velocity_anomaly, in 0..10000.
score_velocity_anomaly(features) ==
    (Min(50, features.tx_count_1h) * 7000) \div 50
        + (Min(200, features.tx_count_24h) * 3000) \div 200

\* AnomalyDetector._score_timing_anomaly, in 0..10000.
score_timing_anomaly(features) ==
    Min(10000,
        (IF features.is_night THEN 3000 ELSE 0)
        + (IF features.seconds_since_last_tx < 60 THEN 4000 ELSE 0)
        + (IF features.is_night /\ features.tx_count_24h = 0 THEN 3000 ELSE 0))

\* AnomalyDetector._combine_scores over the three statistical signals
\* (weights 0.15, 0.15, 0.10), in 0..10000.
combine_scores(scores) ==
    (scores["amount"] * 15 + scores["velocity"] * 15 + scores["timing"] * 10) \div 40

\* list(set(anomaly_types)): the iteration order of a set of Enum members
\* follows their hashes, which differ from one interpreter run to the next;
\* hash_seed stands for the order, and a call may meet either one.
anomaly_type_list(types, hash_seed) ==
    LET order == IF hash_seed = 0
                 THEN <<"amount", "velocity", "timing">>
                 ELSE <<"timing", "velocity", "amount">>
    IN  SelectSeq(order, LAMBDA t : t \in types)

\* AnomalyDetector.detect: the AnomalyResult.
detect(data, tx_history, hash_seed) ==
    LET features == extract_features(data, tx_history)
        scores == [k \in {"amount", "velocity", "timing"} |->
                      CASE k = "amount" -> score_amount_anomaly(features)
                        [] k = "velocity" -> score_velocity_anomaly(features)
                        [] k = "timing" -> score_timing_anomaly(features)]
        types == statistical_checks(features)
                    \cup {k \in {"amount", "velocity", "timing"} : scores[k] > 7000}
    IN  [is_anomaly |-> types /= {} \/ combine_scores(scores) > 6000,
         scores |-> scores,
         anomaly_types |-> anomaly_type_list(types, hash_seed),
         confidence |-> Min(100, (3 * 100) \div 5)]

\* The transactions kept per user by _update_history.
TX_HISTORY_KEEP == 100

\* AnomalyDetector._update_history
update_history(data, tx_history) ==
    LET entry == [timestamp |-> data.timestamp,
                  amount |-> IF data.amount = <<>> THEN 0 ELSE data.amount[1]]
        old == Get(tx_history, data.user_id, <<>>)
    IN  Update(tx_history, data.user_id :> LastN(Append(old, entry), TX_HISTORY_KEEP))

(***************************************************************************)
(* FraudDetector: the five sub-checks.  Each yields its fraud types, its   *)
(* details and the caches as it leaves them.                               *)
(***************************************************************************)

\* _hash_for_gdpr: the first 16 hex digits of the SHA-256 of the value.
hash_for_gdpr(value) == <<"sha256_16", value>>

\* timedelta(hours=4) of _check_ticket_fraud
SCAN_WINDOW_S == 14400

\* time_since_last < 300 of _check_ticket_fraud
DUPLICATE_WINDOW_S == 300

\* len(recent_scans) > 5 of _check_ticket_fraud
EXCESSIVE_SCANS == 5

\* recent_scans[-10:] of _check_ticket_fraud
SCAN_KEEP == 10

\* A mutant of check_ticket_fraud: the zones are compared for equality.
check_ticket_fraud_same_zone(data, ticket_scan_cache, now) ==
    IF data.transaction_type /= "ticket_scan" \/ ~Truthy(data.ticket_id)
    THEN [fraud_types |-> <<>>, details |-> EmptyDict, cache |-> ticket_scan_cache]
    ELSE
    LET recent_scans == SelectSeq(Get(ticket_scan_cache, data.ticket_id, <<>>),
                                  LAMBDA scan : scan.ts > now - SCAN_WINDOW_S)
        last == recent_scans[Len(recent_scans)]
        duplicate == /\ recent_scans /= <<>>
                     /\ Truthy(data.zone_id)
                     /\ data.zone_id = last.zone
                     /\ data.timestamp - last.ts < DUPLICATE_WINDOW_S
    IN  [fraud_types |-> IF duplicate THEN <<FraudType("duplicate_ticket")>> ELSE <<>>,
         details |-> EmptyDict,
         cache |-> Update(ticket_scan_cache,
                     data.ticket_id :> LastN(Append(recent_scans,
                        [ts |-> data.timestamp, zone |-> data.zone_id]), SCAN_KEEP))]

\* A ticket check that matches against every cached scan, whatever its age.
check_ticket_fraud_unfiltered(data, ticket_scan_cache, now) ==
    IF data.transaction_type /= "ticket_scan" \/ ~Truthy(data.ticket_id)
    THEN [fraud_types |-> <<>>, details |-> EmptyDict, cache |-> ticket_scan_cache]
    ELSE
    LET recent_scans == Get(ticket_scan_cache, data.ticket_id, <<>>)
        last == recent_scans[Len(recent_scans)]
        duplicate == /\ recent_scans /= <<>>
                     /\ Truthy(data.zone_id)
                     /\ data.zone_id /= last.zone
                     /\ data.timestamp - last.ts < DUPLICATE_WINDOW_S
        excessive == recent_scans /= <<>> /\ Len(recent_scans) > EXCESSIVE_SCANS
    IN  [fraud_types |->
            (IF duplicate THEN <<FraudType("duplicate_ticket")>> ELSE <<>>)
            \o (IF excessive THEN <<FraudType("suspicious_behavior")>> ELSE <<>>),
         details |->
            Update(IF duplicate
                   THEN "duplicate_ticket" :>
                          [last_scan_time |-> last.ts, last_zone |-> last.zone,
                           current_zone |-> data.zone_id,
                           time_difference_seconds |-> data.timestamp - last.ts]
                   ELSE EmptyDict,
                   IF excessive
                   THEN "excessive_scans" :>
                          [scan_count |-> Len(recent_scans), period_hours |-> 4]
                   ELSE EmptyDict),
         cache |-> Update(ticket_scan_cache,
                     data.ticket_id :> LastN(Append(recent_scans,
                        [ts |-> data.timestamp, zone |-> data.zone_id]), SCAN_KEEP))]

\* FraudDetector._check_ticket_fraud
check_ticket_fraud(data, ticket_scan_cache, now) ==
    IF data.transaction_type /= "ticket_scan" \/ ~Truthy(data.ticket_id)
    THEN [fraud_types |-> <<>>, details |-> EmptyDict, cache |-> ticket_scan_cache]
    ELSE
    LET recent_scans == SelectSeq(Get(ticket_scan_cache, data.ticket_id, <<>>),
                                  LAMBDA scan : scan.ts > now - SCAN_WINDOW_S)
        last == recent_scans[Len(recent_scans)]
        duplicate == /\ recent_scans /= <<>>
                     /\ Truthy(data.zone_id)
                     /\ data.zone_id /= last.zone
                     /\ data.timestamp - last.ts < DUPLICATE_WINDOW_S
        excessive == recent_scans /= <<>> /\ Len(recent_scans) > EXCESSIVE_SCANS
    IN  [fraud_types |->
            (IF duplicate THEN <<FraudType("duplicate_ticket")>> ELSE <<>>)
            \o (IF excessive THEN <<FraudType("suspicious_behavior")>> ELSE <<>>),
         details |->
            Update(IF duplicate
                   THEN "duplicate_ticket" :>
                          [last_scan_time |-> last.ts, last_zone |-> last.zone,
                           current_zone |-> data.zone_id,
                           time_difference_seconds |-> data.timestamp - last.ts]
                   ELSE EmptyDict,
                   IF excessive
                   THEN "excessive_scans" :>
                          [scan_count |-> Len(recent_scans), period_hours |-> 4]
                   ELSE EmptyDict),
         cache |-> Update(ticket_scan_cache,
                     data.ticket_id :> LastN(Append(recent_scans,
                        [ts |-> data.timestamp, zone |-> data.zone_id]), SCAN_KEEP))]

\* The fraud type _check_transaction_anomalies maps an anomaly type to;
\* AnomalyType.VELOCITY, BEHAVIORAL and PATTERN map to nothing.
anomaly_fraud_types(anomaly_types) ==
    LET mapped == SelectSeq(anomaly_types, LAMBDA t : t \in {"amount", "frequency", "timing"})
    IN  [i \in DOMAIN mapped |->
            CASE mapped[i] = "amount" -> FraudType("abnormal_transaction")
              [] mapped[i] = "frequency" -> FraudType("velocity_abuse")
              [] mapped[i] = "timing" -> FraudType("suspicious_behavior")]

\* FraudDetector._check_transaction_anomalies; cache is the detector's
\* per-user transaction history.
check_transaction_anomalies(data, tx_history, hash_seed) ==
    IF data.transaction_type \notin {"cashless_topup", "cashless_payment", "ticket_purchase"}
    THEN [fraud_types |-> <<>>, details |-> EmptyDict, cache |-> tx_history]
    ELSE
    LET anomaly_result == detect(data, tx_history, hash_seed)
    IN  [fraud_types |-> IF anomaly_result.is_anomaly
                         THEN anomaly_fraud_types(anomaly_result.anomaly_types)
                         ELSE <<>>,
         details |->
            Update("anomaly_scores" :> anomaly_result.scores,
                   IF anomaly_result.is_anomaly
                   THEN "anomalies" :> [types |-> anomaly_result.anomaly_types,
                                        confidence |-> anomaly_result.confidence]
                   ELSE EmptyDict),
         cache |-> update_history(data, tx_history)]

\* len(device_users) > 3 of _check_multiple_accounts
DEVICE_USER_LIMIT == 3

\* len(ip_users) > 10 of _check_multiple_accounts
IP_USER_LIMIT == 10

\* A fan-out check that counts the users of the device without the current one.
check_multiple_accounts_before_add(data, device_user_cache, ip_user_cache) ==
    LET device_users == Get(device_user_cache, data.device_fingerprint, {}) \cup {data.user_id}
        ip_users == Get(ip_user_cache, data.ip_address, {}) \cup {data.user_id}
        by_device == Truthy(data.device_fingerprint)
                        /\ Cardinality(device_users \ {data.user_id}) > DEVICE_USER_LIMIT
        by_ip == Truthy(data.ip_address) /\ Cardinality(ip_users) > IP_USER_LIMIT
    IN  [fraud_types |-> IF by_device \/ by_ip
                         THEN <<FraudType("multiple_accounts")>> ELSE <<>>,
         details |->
            Update(IF by_device
                   THEN "multiple_accounts_device" :>
                          [user_count |-> Cardinality(device_users),
                           device_hash |-> hash_for_gdpr(data.device_fingerprint)]
                   ELSE EmptyDict,
                   IF by_ip
                   THEN "multiple_accounts_ip" :>
                          [user_count |-> Cardinality(ip_users),
                           ip_hash |-> hash_for_gdpr(data.ip_address)]
                   ELSE EmptyDict),
         cache |-> [device |-> IF Truthy(data.device_fingerprint)
                               THEN Update(device_user_cache,
                                           data.device_fingerprint :> device_users)
                               ELSE device_user_cache,
                    ip |-> IF Truthy(data.ip_address)
                           THEN Update(ip_user_cache, data.ip_address :> ip_users)
                           ELSE ip_user_cache]]

\* FraudDetector._check_multiple_accounts; cache holds the two fan-out maps.
check_multiple_accounts(data, device_user_cache, ip_user_cache) ==
    LET device_users == Get(device_user_cache, data.device_fingerprint, {}) \cup {data.user_id}
        ip_users == Get(ip_user_cache, data.ip_address, {}) \cup {data.user_id}
        by_device == Truthy(data.device_fingerprint)
                        /\ Cardinality(device_users) > DEVICE_USER_LIMIT
        by_ip == Truthy(data.ip_address) /\ Cardinality(ip_users) > IP_USER_LIMIT
    IN  [fraud_types |-> IF by_device \/ by_ip
                         THEN <<FraudType("multiple_accounts")>> ELSE <<>>,
         details |->
            Update(IF by_device
                   THEN "multiple_accounts_device" :>
                          [user_count |-> Cardinality(device_users),
                           device_hash |-> hash_for_gdpr(data.device_fingerprint)]
                   ELSE EmptyDict,
                   IF by_ip
                   THEN "multiple_accounts_ip" :>
                          [user_count |-> Cardinality(ip_users),
                           ip_hash |-> hash_for_gdpr(data.ip_address)]
                   ELSE EmptyDict),
         cache |-> [device |-> IF Truthy(data.device_fingerprint)
                               THEN Update(device_user_cache,
                                           data.device_fingerprint :> device_users)
                               ELSE device_user_cache,
                    ip |-> IF Truthy(data.ip_address)
                           THEN Update(ip_user_cache, data.ip_address :> ip_users)
                           ELSE ip_user_cache]]

\* timedelta(minutes=5) of _check_velocity
BURST_WINDOW_S == 300

\* tx_count_1h > 50 of _check_velocity
HOURLY_LIMIT == 50

\* tx_count_5min > 10 of _check_velocity
BURST_LIMIT == 10

\* topup_count > 5 of _check_velocity
TOPUP_LIMIT == 5

\* user_transactions[-20:] of _check_velocity
TOPUP_LOOKBACK == 20

\* user_transactions[-100:] of _check_velocity
USER_TX_KEEP == 100

\* FraudDetector._check_velocity
check_velocity(data, user_transaction_cache, now) ==
    LET user_transactions == SelectSeq(Get(user_transaction_cache, data.user_id, <<>>),
                                       LAMBDA ts : ts > now - HOUR_S)
        tx_count_1h == Len(user_transactions)
        tx_count_5min == Len(SelectSeq(user_transactions,
                                       LAMBDA ts : ts > now - BURST_WINDOW_S))
        velocity_flags ==
            (IF tx_count_1h > HOURLY_LIMIT THEN <<"high_hourly_volume">> ELSE <<>>)
            \o (IF tx_count_5min > BURST_LIMIT THEN <<"burst_activity">> ELSE <<>>)
            \o (IF data.transaction_type = "cashless_topup"
                   /\ Len(LastN(user_transactions, TOPUP_LOOKBACK)) > TOPUP_LIMIT
                THEN <<"repeated_topups">> ELSE <<>>)
    IN  [fraud_types |-> IF velocity_flags /= <<>>
                         THEN <<FraudType("velocity_abuse")>> ELSE <<>>,
         details |-> IF velocity_flags /= <<>>
                     THEN "velocity" :> [flags |-> velocity_flags,
                                         tx_count_1h |-> tx_count_1h,
                                         tx_count_5min |-> tx_count_5min]
                     ELSE EmptyDict,
         cache |-> Update(user_transaction_cache,
                     data.user_id :> LastN(Append(user_transactions, data.timestamp),
                                           USER_TX_KEEP))]

\* FraudDetector._check_geolocation: a stub that reports nothing.
check_geolocation(data) ==
    [fraud_types |-> <<>>, details |-> EmptyDict]

(***************************************************************************)
(* PatternRecognizer: declarative rules and the learned classifier         *)
(***************************************************************************)

\* A condition of a PatternRule: op is one of gt, lt, gte, lte, eq,
\* in_range (lo..hi) and is (a bare boolean, 1 for True).  Amounts are in
\* cents.
Cond(field, op, lo, hi) == [field |-> field, op |-> op, lo |-> lo, hi |-> hi]

Rule(name, pattern_type, fraud_type, conditions, severity) ==
    [name |-> name, pattern_type |-> pattern_type,
     fraud_type |-> PatternFraudType(fraud_type),
     conditions |-> conditions, severity |-> severity, enabled |-> TRUE]

\* RuleBasedPatternMatcher._default_rules
default_rules ==
    << Rule("bulk_ticket_purchase", "bulk_purchase", "illegal_resale",
            <<Cond("ticket_count_24h", "gt", 10, 0),
              Cond("unique_categories", "gt", 3, 0)>>, "high"),
       Rule("rapid_topup_pattern", "rapid_transactions", "velocity_abuse",
            <<Cond("topup_count_1h", "gt", 5, 0),
              Cond("avg_interval_minutes", "lt", 5, 0)>>, "medium"),
       Rule("device_sharing_pattern", "device_sharing", "multiple_accounts",
            <<Cond("users_per_device", "gt", 3, 0),
              Cond("transactions_from_device", "gt", 20, 0)>>, "high"),
       Rule("night_transaction_pattern", "unusual_hours", "suspicious_behavior",
            <<Cond("hour", "in_range", 2, 5),
              Cond("amount", "gt", 10000, 0),
              Cond("is_first_transaction", "is", 1, 0)>>, "medium"),
       Rule("new_account_high_volume", "new_account_abuse", "suspicious_behavior",
            <<Cond("account_age_hours", "lt", 24, 0),
              Cond("transaction_count", "gt", 10, 0),
              Cond("total_amount", "gt", 50000, 0)>>, "high"),
       Rule("refund_abuse_pattern", "refund_abuse", "payment_fraud",
            <<Cond("refund_count_30d", "gt", 3, 0),
              Cond("refund_rate", "gt", 50, 0)>>, "high"),
       Rule("coordinated_purchase_pattern", "coordinated_fraud", "illegal_resale",
            <<Cond("users_per_ip", "gt", 5, 0),
              Cond("ticket_count_per_ip", "gt", 20, 0),
              Cond("time_window_minutes", "lt", 30, 0)>>, "critical"),
       Rule("impossible_travel", "geographic_anomaly", "geolocation_fraud",
            <<Cond("distance_km", "gt", 500, 0),
              Cond("time_between_hours", "lt", 2, 0)>>, "high") >>

\* One condition of _evaluate_rule; a field missing from the context fails.
condition_holds(cond, context) ==
    /\ cond.field \in DOMAIN context
    /\ LET value == context[cond.field]
       IN  CASE cond.op = "gt" -> value > cond.lo
             [] cond.op = "lt" -> value < cond.lo
             [] cond.op = "gte" -> value >= cond.lo
             [] cond.op = "lte" -> value <= cond.lo
             [] cond.op = "eq" -> value = cond.lo
             [] cond.op = "in_range" -> cond.lo <= value /\ value <= cond.hi
             [] cond.op = "is" -> value = cond.lo

\* RuleBasedPatternMatcher._evaluate_rule
evaluate_rule(rule, context) ==
    \A i \in DOMAIN rule.conditions : condition_holds(rule.conditions[i], context)

\* RuleBasedPatternMatcher._extract_evidence
extract_evidence(rule, context) ==
    LET fields == {rule.conditions[i].field : i \in DOMAIN rule.conditions}
    IN  [f \in fields \cap DOMAIN context |-> context[f]]

\* RuleBasedPatternMatcher.match: a FraudPattern per enabled rule that holds,
\* in the order of the rule list; confidence is in hundredths.
match(context, rules, enabled_rules) ==
    LET hits == SelectSeq(rules, LAMBDA rule :
                    rule.name \in enabled_rules /\ evaluate_rule(rule, context))
    IN  [i \in DOMAIN hits |->
            [name |-> hits[i].name,
             pattern_type |-> hits[i].pattern_type,
             fraud_type |-> hits[i].fraud_type,
             confidence |-> 80,
             evidence |-> extract_evidence(hits[i], context),
             severity |-> hits[i].severity]]

\* datetime.weekday() of a timestamp in seconds (1970-01-01 was a Thursday).
WeekdayOf(ts) == ((ts \div DAY_S) + 3) % 7

\* PatternRecognizer._build_context: the numeric fields of the context.  The
\* context also carries transaction_type and, under their own keys, the
\* details of the sub-checks (dicts); no rule of the model names those.
build_context(data, extra_context) ==
    LET hour == HourOf(data.timestamp)
        base == [k \in {"amount", "hour", "day_of_week", "is_weekend", "is_night"} |->
                    CASE k = "amount" -> IF data.amount = <<>> THEN 0 ELSE data.amount[1]
                      [] k = "hour" -> hour
                      [] k = "day_of_week" -> WeekdayOf(data.timestamp)
                      [] k = "is_weekend" -> IF WeekdayOf(data.timestamp) >= 5 THEN 1 ELSE 0
                      [] k = "is_night" -> IF hour >= 22 \/ hour < 6 THEN 1 ELSE 0]
        velocity == IF "velocity" \in DOMAIN extra_context
                    THEN ("transaction_count_1h" :> extra_context["velocity"].tx_count_1h)
                         @@ ("topup_count_1h" :> extra_context["velocity"].tx_count_5min)
                    ELSE EmptyDict
        anomaly == IF "anomaly_scores" \in DOMAIN extra_context
                   THEN "anomaly_score" :>
                            Get(extra_context["anomaly_scores"], "isolation_forest", 0)
                   ELSE EmptyDict
    IN  Update(Update(base, velocity), anomaly)

\* PatternRecognizer._pattern_to_fraud_type
pattern_to_fraud_type(pattern_type) ==
    PatternFraudType(
        CASE pattern_type \in {"ticket_resale", "bulk_purchase", "coordinated_fraud"}
                -> "illegal_resale"
          [] pattern_type = "device_sharing" -> "multiple_accounts"
          [] pattern_type = "rapid_transactions" -> "velocity_abuse"
          [] pattern_type \in {"unusual_hours", "new_account_abuse"} -> "suspicious_behavior"
          [] pattern_type = "geographic_anomaly" -> "geolocation_fraud"
          [] pattern_type \in {"price_manipulation", "refund_abuse"} -> "payment_fraud"
          [] OTHER -> "suspicious_behavior")

\* PatternRecognizer._get_severity; confidence in hundredths.
get_severity(confidence) ==
    IF confidence >= 90 THEN "critical"
    ELSE IF confidence >= 70 THEN "high"
    ELSE IF confidence >= 50 THEN "medium"
    ELSE "low"

\* A loop over the predictions that appends every one of them.
RECURSIVE add_ml_patterns_all(_, _)
add_ml_patterns_all(patterns, ml_patterns) ==
    IF ml_patterns = <<>> THEN patterns
    ELSE LET pred == Head(ml_patterns)
             made == [name |-> pred.pattern_type,
                      pattern_type |-> pred.pattern_type,
                      fraud_type |-> pattern_to_fraud_type(pred.pattern_type),
                      confidence |-> pred.confidence,
                      evidence |-> ("source" :> 0),
                      severity |-> get_severity(pred.confidence)]
         IN  add_ml_patterns_all(Append(patterns, made), Tail(ml_patterns))

\* The loop of recognize_patterns over the classifier's predictions
\* (pattern_recognition.py lines 576-586): a prediction is appended unless a
\* pattern of its type is already in the list.
RECURSIVE add_ml_patterns(_, _)
add_ml_patterns(patterns, ml_patterns) ==
    IF ml_patterns = <<>> THEN patterns
    ELSE LET pred == Head(ml_patterns)
             seen == \E i \in DOMAIN patterns :
                        patterns[i].pattern_type = pred.pattern_type
             made == [name |-> pred.pattern_type,
                      pattern_type |-> pred.pattern_type,
                      fraud_type |-> pattern_to_fraud_type(pred.pattern_type),
                      confidence |-> pred.confidence,
                      evidence |-> ("source" :> 0),
                      severity |-> get_severity(pred.confidence)]
         IN  add_ml_patterns(IF seen THEN patterns ELSE Append(patterns, made),
                             Tail(ml_patterns))

\* PatternRecognizer.recognize_patterns; ml_patterns is what
\* MLPatternRecognizer.predict returns for the context.
recognize_patterns(data, context, rules, enabled_rules, ml_is_trained, ml_patterns) ==
    LET rule_patterns == match(build_context(data, context), rules, enabled_rules)
    IN  IF ml_is_trained THEN add_ml_patterns(rule_patterns, ml_patterns)
        ELSE rule_patterns

(***************************************************************************)
(* FraudDetector.check_transaction                                         *)
(***************************************************************************)

\* The five sub-checks in the order check_transaction dispatches them.
SubCheckNames == <<"ticket", "anomaly", "multiple_accounts", "velocity", "geolocation">>

SubChecks == 1..5

\* What asyncio.gather(..., return_exceptions=True) yields for one sub-check:
\* the exception it raised, or its (fraud_types, details).
Settled(raised, check) ==
    [raised |-> raised,
     fraud_types |-> IF raised THEN <<>> ELSE check.fraud_types,
     details |-> IF raised THEN EmptyDict ELSE check.details]

\* A mutant of process_results: the first exception among the results is
\* re-raised, as gather does without return_exceptions.
RECURSIVE process_results_reraise(_)
process_results_reraise(results) ==
    IF results = <<>>
    THEN [raised |-> FALSE, fraud_types |-> <<>>, details |-> EmptyDict]
    ELSE LET rest == process_results_reraise(SubSeq(results, 1, Len(results) - 1))
             last == results[Len(results)]
         IN  [raised |-> rest.raised \/ last.raised,
              fraud_types |-> rest.fraud_types \o last.fraud_types,
              details |-> Update(rest.details, last.details)]

\* A mutant of process_results: a failed sub-check ends the loop, so the
\* sub-checks after it contribute nothing.
RECURSIVE process_results_break(_)
process_results_break(results) ==
    IF results = <<>> \/ Head(results).raised
    THEN [raised |-> FALSE, fraud_types |-> <<>>, details |-> EmptyDict]
    ELSE LET rest == process_results_break(Tail(results))
         IN  [raised |-> FALSE,
              fraud_types |-> Head(results).fraud_types \o rest.fraud_types,
              details |-> Update(Head(results).details, rest.details)]

\* The loop over the gathered results (fraud_detector.py lines 251-258): a
\* result that is an exception is logged and skipped, the others are merged
\* in dispatch order.  raised tells whether the loop itself raises.
RECURSIVE process_results(_)
process_results(results) ==
    IF results = <<>>
    THEN [raised |-> FALSE, fraud_types |-> <<>>, details |-> EmptyDict]
    ELSE LET rest == process_results(SubSeq(results, 1, Len(results) - 1))
             last == results[Len(results)]
         IN  [raised |-> FALSE,
              fraud_types |-> rest.fraud_types \o last.fraud_types,
              details |-> Update(rest.details, last.details)]

\* The loop over the patterns (fraud_detector.py lines 262-264): a pattern's
\* fraud type is appended unless the list already holds it.
RECURSIVE merge_pattern_types(_, _)
merge_pattern_types(fraud_types, patterns) ==
    IF patterns = <<>> THEN fraud_types
    ELSE LET ft == Head(patterns).fraud_type
             seen == \E i \in DOMAIN fraud_types : fraud_types[i] = ft
         IN  merge_pattern_types(IF seen THEN fraud_types ELSE Append(fraud_types, ft),
                                 Tail(patterns))

\* details['pattern_<name>'] of the patterns (fraud_detector.py lines
\* 265-268), keyed here by the pattern's name.
pattern_details(patterns) ==
    [n \in {patterns[i].name : i \in DOMAIN patterns} |->
        LET i == CHOOSE j \in DOMAIN patterns :
                    /\ patterns[j].name = n
                    /\ \A k \in DOMAIN patterns : patterns[k].name = n => k <= j
        IN  [confidence |-> patterns[i].confidence, evidence |-> patterns[i].evidence]]

HasType(fraud_types, name) ==
    \E i \in DOMAIN fraud_types : fraud_types[i] = FraudType(name)

\* FraudDetector._generate_recommendations
generate_recommendations(fraud_types, risk_score) ==
    LET specific ==
            (IF HasType(fraud_types, "duplicate_ticket")
             THEN <<"Verify ticket holder identity with photo ID",
                    "Check if original ticket was reported lost/stolen">> ELSE <<>>)
            \o (IF HasType(fraud_types, "multiple_accounts")
                THEN <<"Verify user accounts are legitimate (different people)",
                       "Consider requiring additional verification">> ELSE <<>>)
            \o (IF HasType(fraud_types, "velocity_abuse")
                THEN <<"Apply temporary rate limiting to this user",
                       "Review transaction history for patterns">> ELSE <<>>)
            \o (IF HasType(fraud_types, "abnormal_transaction")
                THEN <<"Review transaction amount against user history">> ELSE <<>>)
            \o (IF HasType(fraud_types, "illegal_resale")
                THEN <<"Check ticket purchase price vs. festival price",
                       "Review if user has bought many tickets for resale">> ELSE <<>>)
    IN  IF risk_score >= Pts(50) /\ specific = <<>>
        THEN <<"Manual review recommended due to elevated risk score">>
        ELSE specific

\* A mutant of fallback_result: the error path blocks instead of allowing.
fallback_result_fail_closed(data, error) ==
    [transaction_id |-> data.transaction_id,
     risk_score |-> Pts(100),
     risk_level |-> "critical",
     fraud_types |-> <<>>,
     action |-> "block",
     confidence |-> 0,
     details |-> ("error" :> [message |-> error]),
     pattern_details |-> EmptyDict,
     should_block |-> TRUE,
     alert_required |-> FALSE,
     recommendations |-> <<"Error during check - manual review recommended">>]

\* The safe default of the except clause (fraud_detector.py lines 326-342).
fallback_result(data, error) ==
    [transaction_id |-> data.transaction_id,
     risk_score |-> 0,
     risk_level |-> "low",
     fraud_types |-> <<>>,
     action |-> "allow",
     confidence |-> 0,
     details |-> ("error" :> [message |-> error]),
     pattern_details |-> EmptyDict,
     should_block |-> FALSE,
     alert_required |-> FALSE,
     recommendations |-> <<"Error during check - manual review recommended">>]

\* The FraudCheckResult of the normal path (fraud_detector.py lines 295-308).
normal_result(data, risk_result, fraud_types, decision, details, patterns) ==
    [transaction_id |-> data.transaction_id,
     risk_score |-> risk_result.score,
     risk_level |-> risk_result.level,
     fraud_types |-> fraud_types,
     action |-> decision.action,
     confidence |-> risk_result.confidence,
     details |-> details,
     pattern_details |-> pattern_details(patterns),
     should_block |-> decision.should_block,
     alert_required |-> decision.alert_required,
     recommendations |-> generate_recommendations(fraud_types, risk_result.score)]

\* FraudDetector._update_stats; the moving average of the processing time
\* is a measurement and is left out.
update_stats(stats, result) ==
    [stats EXCEPT
        !.total_checks = @ + 1,
        !.blocked = IF result.should_block THEN @ + 1 ELSE @,
        !.flagged = IF ~result.should_block /\ result.action \in {"flag", "review"}
                    THEN @ + 1 ELSE @]

SensitiveKeys == {"ip_address", "device_fingerprint", "user_id", "device_id"}

\* FraudDetector._anonymize_evidence over the details of a result, whose
\* values are dicts of plain values.
anonymize_evidence(details) ==
    [k \in DOMAIN details |->
        [f \in DOMAIN details[k] |->
            IF f \in SensitiveKeys THEN hash_for_gdpr(details[k][f]) ELSE details[k][f]]]

\* The severity bucket of _generate_alert.
alert_severity(risk_score) ==
    IF risk_score >= Pts(90) THEN "critical"
    ELSE IF risk_score >= Pts(75) THEN "high"
    ELSE IF risk_score >= Pts(50) THEN "medium"
    ELSE "low"

\* The FraudAlert built by _generate_alert.
generate_alert(data, result, now) ==
    [alert_id |-> <<"alert", data.transaction_id, now>>,
     timestamp |-> now,
     severity |-> alert_severity(result.risk_score),
     fraud_type |-> IF result.fraud_types /= <<>> THEN result.fraud_types[1]
                    ELSE FraudType("suspicious_behavior"),
     risk_score |-> result.risk_score,
     transaction_id |-> data.transaction_id,
     user_id |-> hash_for_gdpr(data.user_id),
     festival_id |-> data.festival_id,
     evidence |-> anonymize_evidence(result.details),
     recommended_action |-> result.action,
     auto_blocked |-> result.should_block]

(***************************************************************************)
(* State                                                                   *)
(***************************************************************************)

VARIABLES
    initialized,              \* FraudDetector._initialized
    now,                      \* the wall clock (datetime.utcnow()), in seconds
    ticket_scan_cache,        \* _ticket_scan_cache: ticket -> <<[ts, zone]>>
    user_transaction_cache,   \* _user_transaction_cache: user -> <<ts>>
    device_user_cache,        \* _device_user_cache: fingerprint -> set of users
    ip_user_cache,            \* _ip_user_cache: ip -> set of users
    tx_history,               \* AnomalyDetector._tx_history: user -> <<[timestamp, amount]>>
    user_profiles,            \* RiskScorer._user_profiles
    rules,                    \* RuleBasedPatternMatcher.rules
    enabled_rules,            \* RuleBasedPatternMatcher._enabled_rules
    ml_is_trained,            \* MLPatternRecognizer._is_trained
    weights,                  \* RiskScorer.weights as configured, before normalisation
    calibration_params,       \* RiskScorer._calibration_params
    alerts,                   \* FraudDetector._alerts
    stats,                    \* FraudDetector._stats
    outcome,                  \* how the last check_transaction call ended
    call,                     \* the last check_transaction call: its event, faults and trace
    scan_log,                 \* per ticket, the scans its ticket check has run for since the last cleanup
    account_log,              \* the (device fingerprint or IP address, user) pairs its fan-out check has run for since the last cleanup, each with the time of its latest run
    feedback_buffer,          \* PatternRecognizer._feedback_buffer: <<[evidence, fraud_type]>>
    training,                 \* what the last train call handed to the training hooks, and the models it left
    in_flight,                \* the check_transaction calls running concurrently on the event loop, each with the sub-checks it still has to run
    calls,                    \* number of check_transaction calls so far
    faulty_calls,             \* number of those calls in which something raised by injection
    ticks,                    \* number of clock steps so far
    probe                     \* input and output of the pure function under check

vars ==
    <<initialized, now, ticket_scan_cache, user_transaction_cache,
      device_user_cache, ip_user_cache, tx_history, user_profiles, rules,
      enabled_rules, ml_is_trained, weights, calibration_params, alerts, stats,
      outcome, call, scan_log, account_log, feedback_buffer, training, in_flight, calls, faulty_calls, ticks, probe>>

detector_vars ==
    <<initialized, now, ticket_scan_cache, user_transaction_cache,
      device_user_cache, ip_user_cache, tx_history, user_profiles, rules,
      enabled_rules, ml_is_trained, weights, calibration_params, alerts, stats,
      outcome, call, scan_log, account_log, feedback_buffer, training, in_flight, calls, faulty_calls, ticks>>

(***************************************************************************)
(* Bounds and input sets                                                   *)
(***************************************************************************)

\* check_transaction calls per behaviour.
MaxCalls == 2

\* check_transaction calls with an injected fault per behaviour.
MaxFaultyCalls == 1

\* Clock steps per behaviour.
MaxTicks == 2

\* 01:58:00 on the fifth day of the epoch: a night hour for the anomaly
\* engine, two minutes before the night band of the risk scorer.
StartTime == 4 * DAY_S + HOUR_S + 58 * 60

\* How far the clock moves in one step: inside the duplicate window, up to
\* its edge, and a whole scan window.
TickSteps == {120, 180, SCAN_WINDOW_S}

\* The orders in which a set of enum members may be iterated.
HashSeeds == {0, 1}

Zones == {"A", "B"}

\* metadata carrying every signal the risk scorer reads from it.
RiskyMetadata ==
    [k \in {"tx_count_5min", "tx_count_1h", "is_new_device", "users_per_device",
            "is_new_location", "distance_from_usual_km", "account_age_hours"} |->
        CASE k = "tx_count_5min" -> 6
          [] k = "tx_count_1h" -> 21
          [] k = "is_new_device" -> 1
          [] k = "users_per_device" -> 4
          [] k = "is_new_location" -> 1
          [] k = "distance_from_usual_km" -> 501
          [] k = "account_age_hours" -> 0]

\* TransactionData
TransactionData(transaction_id, user_id, festival_id, transaction_type, amount, timestamp, zone_id, ticket_id, metadata) ==
    [transaction_id |-> transaction_id, user_id |-> user_id,
     festival_id |-> festival_id, transaction_type |-> transaction_type,
     amount |-> amount, timestamp |-> timestamp,
     device_fingerprint |-> IF transaction_type = "ticket_scan" THEN None ELSE "D1",
     ip_address |-> IF transaction_type = "ticket_scan" THEN None ELSE "IP1",
     has_location |-> FALSE,
     zone_id |-> zone_id, ticket_id |-> ticket_id, metadata |-> metadata]

ScanEvents(t) ==
    {TransactionData("tx", "U1", "F1", "ticket_scan", <<>>, t, z, "T1", EmptyDict) :
        z \in Zones}

PaymentEvents(t) ==
    {TransactionData("tx", "U1", "F1", k[1], <<k[2]>>, t, None, None, k[3]) :
        k \in {<<"cashless_topup", 4000, EmptyDict>>,
               <<"ticket_purchase", 150000, EmptyDict>>,
               <<"ticket_purchase", 150000, RiskyMetadata>>,
               <<"cashless_topup", 150000, RiskyMetadata>>}}

\* Events with a required identifier missing: None or the empty string.
MalformedEvents(t) ==
    {TransactionData("tx", None, "F1", "ticket_purchase", <<150000>>, t, None, None,
                     RiskyMetadata),
     TransactionData("", "U1", "F1", "ticket_scan", <<>>, t, "B", "T1", EmptyDict),
     TransactionData("tx", "U1", None, "cashless_topup", <<4000>>, t, None, None,
                     EmptyDict)}

\* The events that take part in calls with injected faults.
FaultEvents(t) ==
    {TransactionData("tx", "U1", "F1", "ticket_scan", <<>>, t, "B", "T1", EmptyDict),
     TransactionData("tx", "U1", "F1", "cashless_topup", <<150000>>, t, None, None,
                     RiskyMetadata)}

WellFormed(data) ==
    Truthy(data.transaction_id) /\ Truthy(data.user_id) /\ Truthy(data.festival_id)

\* A fault scenario of one call: the sub-checks that raise, whether they
\* raise after their cache update (late) or before it, and the later stage
\* that raises, if any.
Fault(failed, late, stage) == [failed |-> failed, late |-> late, stage |-> stage]

NoFault == Fault({}, FALSE, "none")

Stages == {"pattern", "risk", "stats", "alert"}

Faults ==
    {Fault(f, FALSE, "none") : f \in {{1}, {2}, {3}, {4}, {5}, {1, 2}, {2, 4}, SubChecks}}
    \cup {Fault({i}, TRUE, "none") : i \in {1, 2, 4}}
    \cup {Fault({}, FALSE, st) : st \in Stages}

\* A rule an operator may add at run time through add_rule.
CustomRules ==
    {Rule("large_payment", "price_manipulation", "payment_fraud",
          <<Cond("amount", "gt", 100000, 0)>>, "high")}

(***************************************************************************)
(* Initial state: the detector as its constructor leaves it                *)
(***************************************************************************)

NoResult ==
    [transaction_id |-> None, risk_score |-> 0, risk_level |-> "low",
     fraud_types |-> <<>>, action |-> "allow", confidence |-> 0,
     details |-> EmptyDict, pattern_details |-> EmptyDict,
     should_block |-> FALSE, alert_required |-> FALSE, recommendations |-> <<>>]

NoCall ==
    [data |-> TransactionData(None, None, None, "none", <<>>, 0, None, None, EmptyDict),
     fault |-> NoFault, at |-> 0, error |-> "none", ran |-> {},
     checks |-> <<>>, checked |-> <<>>, factors |-> [f \in RiskFactor |-> 0]]

NoProbe == [fn |-> "none"]

\* No train call yet: nothing handed over, the anomaly models untrained and
\* the global amount statistics as constructed.
NoTraining ==
    [given |-> <<>>, handed |-> <<>>, labels |-> [given |-> FALSE, values |-> <<>>],
     is_trained |-> FALSE, ae_is_trained |-> FALSE,
     global_stats |-> [amount_mean |-> AMOUNT_MEAN, amount_std |-> AMOUNT_STD]]

DetectorInit ==
    /\ initialized = FALSE
    /\ now = StartTime
    /\ ticket_scan_cache = EmptyDict
    /\ user_transaction_cache = EmptyDict
    /\ device_user_cache = EmptyDict
    /\ ip_user_cache = EmptyDict
    /\ tx_history = EmptyDict
    /\ user_profiles = EmptyDict
    /\ rules = default_rules
    /\ enabled_rules = {default_rules[i].name : i \in DOMAIN default_rules}
    /\ ml_is_trained = FALSE
    /\ weights = DEFAULT_WEIGHTS
    /\ calibration_params = [score_shift |-> 0, score_scale |-> 100]
    /\ alerts = <<>>
    /\ stats = [total_checks |-> 0, blocked |-> 0, flagged |-> 0, alerts_generated |-> 0]
    /\ outcome = [kind |-> "none", result |-> NoResult]
    /\ call = NoCall
    /\ scan_log = EmptyDict
    /\ account_log = {}
    /\ feedback_buffer = <<>>
    /\ training = NoTraining
    /\ in_flight = <<>>
    /\ calls = 0
    /\ faulty_calls = 0
    /\ ticks = 0

Init == DetectorInit /\ probe = NoProbe

(***************************************************************************)
(* Operations                                                              *)
(***************************************************************************)

\* FraudDetector.initialize: the sub-components load what model files exist
\* (every load is guarded by try/except, and none exists at first start)
\* and the flag is set.
Initialize ==
    /\ ~initialized
    /\ initialized' = TRUE
    /\ UNCHANGED <<now, ticket_scan_cache, user_transaction_cache,
                   device_user_cache, ip_user_cache, tx_history, user_profiles,
                   rules, enabled_rules, ml_is_trained, weights, calibration_params,
                   alerts, stats, outcome, call, scan_log, account_log, feedback_buffer, training, in_flight, calls, faulty_calls,
                   ticks, probe>>

\* Time passes before a call.
Tick ==
    /\ ticks < MaxTicks
    /\ calls < MaxCalls
    /\ \E d \in TickSteps : now' = now + d
    /\ ticks' = ticks + 1
    /\ UNCHANGED <<initialized, ticket_scan_cache, user_transaction_cache,
                   device_user_cache, ip_user_cache, tx_history, user_profiles,
                   rules, enabled_rules, ml_is_trained, weights, calibration_params,
                   alerts, stats, outcome, call, scan_log, account_log, feedback_buffer, training, in_flight, calls, faulty_calls, probe>>

\* RuleBasedPatternMatcher.add_rule
AddRule ==
    /\ \E rule \in CustomRules :
        /\ \A i \in DOMAIN rules : rules[i].name /= rule.name
        /\ rules' = Append(rules, rule)
        /\ enabled_rules' = IF rule.enabled THEN enabled_rules \cup {rule.name}
                            ELSE enabled_rules
    /\ UNCHANGED <<initialized, now, ticket_scan_cache,
                   user_transaction_cache, device_user_cache, ip_user_cache,
                   tx_history, user_profiles, ml_is_trained, weights,
                   calibration_params, alerts, stats, outcome, call, scan_log, account_log, feedback_buffer, training, in_flight,
                   calls, faulty_calls, ticks, probe>>

\* A mutant of check_outcome: alert generation runs outside the try block.
check_outcome_alert_unguarded(data, error, result) ==
    IF error = "none" THEN [kind |-> "returned", result |-> result]
    ELSE IF error = "alert" THEN [kind |-> "raised", result |-> NoResult]
    ELSE [kind |-> "returned", result |-> fallback_result(data, error)]

\* The try/except of check_transaction: the result of the normal path, or
\* the safe default when any step raised.
check_outcome(data, error, result) ==
    IF error = "none" THEN [kind |-> "returned", result |-> result]
    ELSE [kind |-> "returned", result |-> fallback_result(data, error)]

\* The step of check_transaction that raises into its except clause, if
\* any: a sub-check's exception never does (gather returns it), a fault
\* injected in a later stage does, and so does _generate_alert when the
\* event has no user id, for it hashes data.user_id and None has no encode().
raised_in(data, fault, merged, result) ==
    IF merged.raised THEN "gather"
    ELSE IF fault.stage \in {"pattern", "risk", "stats"} THEN fault.stage
    ELSE IF result.alert_required /\ (fault.stage = "alert" \/ data.user_id = None)
    THEN "alert"
    ELSE "none"

\* FraudDetector.check_transaction for the event data at the wall-clock
\* time now, with the faults of fault raised in it.  The call initializes
\* the detector first when nobody has; the sub-checks read and update the
\* caches, their results are merged, patterns matched, the risk fused, the
\* action decided, the statistics and the alerts updated; call keeps the
\* trace of the call.
check_transaction(data, fault) ==
    \E hash_seed \in HashSeeds :
    \E ticket \in {check_ticket_fraud(data, ticket_scan_cache, now)} :
    \E anomaly \in {check_transaction_anomalies(data, tx_history, hash_seed)} :
    \E accounts \in {check_multiple_accounts(data, device_user_cache, ip_user_cache)} :
    \E velocity \in {check_velocity(data, user_transaction_cache, now)} :
    \E geolocation \in {check_geolocation(data)} :
    \E ran \in {{i \in SubChecks : i \notin fault.failed \/ fault.late}} :
    \E merged \in {process_results(
                    <<Settled(1 \in fault.failed, ticket), Settled(2 \in fault.failed, anomaly),
                      Settled(3 \in fault.failed, accounts), Settled(4 \in fault.failed, velocity),
                      Settled(5 \in fault.failed, geolocation)>>)} :
    \E patterns \in {recognize_patterns(data, merged.details, rules, enabled_rules,
                                        ml_is_trained, <<>>)} :
    \E fraud_types \in {merge_pattern_types(merged.fraud_types, patterns)} :
    \E risk_result \in {calculate_score(data, fraud_types,
                            Get(merged.details, "anomaly_scores", EmptyDict),
                            patterns, weights, calibration_params, user_profiles)} :
    \E result \in {normal_result(data, risk_result, fraud_types,
                                 determine_action(risk_result.score, fraud_types),
                                 merged.details, patterns)} :
    \E error \in {raised_in(data, fault, merged, result)} :
    \E counted \in {IF error \in {"none", "alert"} THEN update_stats(stats, result)
                    ELSE stats} :
        /\ initialized' = TRUE
        /\ ticket_scan_cache' = IF 1 \in ran THEN ticket.cache ELSE ticket_scan_cache
        /\ tx_history' = IF 2 \in ran THEN anomaly.cache ELSE tx_history
        /\ device_user_cache' = IF 3 \in ran THEN accounts.cache.device
                                ELSE device_user_cache
        /\ ip_user_cache' = IF 3 \in ran THEN accounts.cache.ip ELSE ip_user_cache
        /\ user_transaction_cache' = IF 4 \in ran THEN velocity.cache
                                     ELSE user_transaction_cache
        /\ stats' = IF error = "none" /\ result.alert_required
                    THEN [counted EXCEPT !.alerts_generated = @ + 1]
                    ELSE counted
        /\ alerts' = IF error = "none" /\ result.alert_required
                     THEN Append(alerts, generate_alert(data, result, now))
                     ELSE alerts
        /\ outcome' = check_outcome(data, error, result)
        /\ call' = [data |-> data, fault |-> fault, at |-> now, error |-> error,
                    ran |-> ran,
                    checks |-> <<[fraud_types |-> ticket.fraud_types,
                                  details |-> ticket.details],
                                 [fraud_types |-> anomaly.fraud_types,
                                  details |-> anomaly.details],
                                 [fraud_types |-> accounts.fraud_types,
                                  details |-> accounts.details],
                                 [fraud_types |-> velocity.fraud_types,
                                  details |-> velocity.details],
                                 [fraud_types |-> geolocation.fraud_types,
                                  details |-> geolocation.details]>>,
                    checked |-> merged.fraud_types,
                    factors |-> risk_result.factors]
        /\ scan_log' = IF 1 \in ran /\ data.transaction_type = "ticket_scan"
                          /\ Truthy(data.ticket_id)
                       THEN Update(scan_log, data.ticket_id :>
                               Append(Get(scan_log, data.ticket_id, <<>>),
                                      [ts |-> data.timestamp, zone |-> data.zone_id]))
                       ELSE scan_log
        /\ account_log' =
              IF 3 \in ran
              THEN LET seen ==
                         (IF Truthy(data.device_fingerprint)
                          THEN {<<"device", data.device_fingerprint, data.user_id>>} ELSE {})
                         \cup (IF Truthy(data.ip_address)
                               THEN {<<"ip", data.ip_address, data.user_id>>} ELSE {})
                   IN  {e \in account_log : <<e[1], e[2], e[3]>> \notin seen}
                       \cup {<<e[1], e[2], e[3], now>> : e \in seen}
              ELSE account_log
        /\ calls' = calls + 1
        /\ faulty_calls' = IF fault = NoFault THEN faulty_calls ELSE faulty_calls + 1
        /\ UNCHANGED <<now, user_profiles, rules, enabled_rules, ml_is_trained,
                       weights, calibration_params, ticks, probe, feedback_buffer,
                       training, in_flight>>

\* A call in which nothing is made to fail.
CheckTransaction ==
    /\ calls < MaxCalls
    /\ \E data \in ScanEvents(now) \cup PaymentEvents(now) \cup MalformedEvents(now) :
        check_transaction(data, NoFault)

\* A call in which sub-checks or a later stage raise.
CheckTransactionFaulty ==
    /\ calls < MaxCalls
    /\ faulty_calls < MaxFaultyCalls
    /\ \E data \in FaultEvents(now), fault \in Faults :
        check_transaction(data, fault)

\* A cleanup that leaves the ticket-scan cache as it is.
CleanupKeepingScans ==
    /\ calls > 0
    /\ user_transaction_cache' = EmptyDict
    /\ device_user_cache' = EmptyDict
    /\ ip_user_cache' = EmptyDict
    /\ tx_history' = EmptyDict
    /\ user_profiles' = EmptyDict
    /\ scan_log' = EmptyDict
    /\ account_log' = {}
    /\ feedback_buffer' = <<>>
    /\ UNCHANGED <<initialized, now, ticket_scan_cache, rules, enabled_rules, ml_is_trained,
                   weights, calibration_params, alerts, stats, outcome, call,
                   calls, faulty_calls, ticks, probe, training, in_flight>>

\* A cleanup that also empties the alert store.
CleanupDroppingAlerts ==
    /\ calls > 0
    /\ ticket_scan_cache' = EmptyDict
    /\ user_transaction_cache' = EmptyDict
    /\ device_user_cache' = EmptyDict
    /\ ip_user_cache' = EmptyDict
    /\ tx_history' = EmptyDict
    /\ user_profiles' = EmptyDict
    /\ scan_log' = EmptyDict
    /\ account_log' = {}
    /\ feedback_buffer' = <<>>
    /\ alerts' = <<>>
    /\ UNCHANGED <<initialized, now, rules, enabled_rules, ml_is_trained,
                   weights, calibration_params, stats, outcome, call,
                   calls, faulty_calls, ticks, probe, training, in_flight>>

\* FraudDetector.cleanup, with the cleanup of the three sub-components.
Cleanup ==
    /\ calls > 0
    /\ ticket_scan_cache' = EmptyDict
    /\ user_transaction_cache' = EmptyDict
    /\ device_user_cache' = EmptyDict
    /\ ip_user_cache' = EmptyDict
    /\ tx_history' = EmptyDict
    /\ user_profiles' = EmptyDict
    /\ scan_log' = EmptyDict
    /\ account_log' = {}
    /\ feedback_buffer' = <<>>
    /\ UNCHANGED <<initialized, now, rules, enabled_rules, ml_is_trained,
                   weights, calibration_params, alerts, stats, outcome, call,
                   calls, faulty_calls, ticks, probe, training, in_flight>>

Next ==
    \/ Initialize
    \/ Tick
    \/ AddRule
    \/ CheckTransaction
    \/ CheckTransactionFaulty
    \/ Cleanup

Spec == Init /\ [][Next]_vars

(***************************************************************************)
(* The decision functions on their own                                     *)
(***************************************************************************)

\* Scores handed to _determine_action and _get_risk_level: every hundredth
\* of a point of [0, 100].
Scores == 0..Pts(100)

\* Fraud-type lists handed to the decision functions.
FraudTypeLists ==
    {<<>>,
     <<FraudType("abnormal_transaction")>>,
     <<FraudType("velocity_abuse"), FraudType("suspicious_behavior")>>,
     <<FraudType("multiple_accounts"), FraudType("velocity_abuse"),
       FraudType("abnormal_transaction"), FraudType("illegal_resale")>>,
     <<FraudType("duplicate_ticket")>>,
     <<FraudType("abnormal_transaction"), FraudType("payment_fraud")>>,
     <<PatternFraudType("payment_fraud")>>}

\* Weights a configuration may carry, in hundredths: the defaults, all
\* zero, one negative weight, one weight far above the others.
ConfiguredWeights ==
    {DEFAULT_WEIGHTS,
     [f \in RiskFactor |-> 0],
     [DEFAULT_WEIGHTS EXCEPT !["amount"] = -300],
     [DEFAULT_WEIGHTS EXCEPT !["anomaly_score"] = 10000]}

\* Calibration parameters a calibration file may carry.
Calibrations ==
    {[score_shift |-> sh, score_scale |-> sc] :
        sh \in {-Pts(500), -Pts(10), 0, Pts(10), Pts(500)},
        sc \in {-100, 0, 50, 100, 200, 1000}}

\* Per-algorithm anomaly scores, in 0..10000.
AnomalyScoreDicts ==
    {EmptyDict,
     [k \in {"amount", "velocity", "timing"} |-> 0],
     [k \in {"amount", "velocity", "timing"} |-> IF k = "amount" THEN 9000 ELSE 2500],
     [k \in {"isolation_forest", "autoencoder", "amount", "velocity", "timing"} |-> 10000]}

\* Pattern matches handed to the scorer.
PatternMatchLists ==
    {<<>>,
     <<[name |-> "large_payment", pattern_type |-> "price_manipulation",
        fraud_type |-> PatternFraudType("payment_fraud"), confidence |-> 80,
        evidence |-> EmptyDict, severity |-> "high"]>>,
     <<[name |-> "ticket_resale_pattern", pattern_type |-> "ticket_resale",
        fraud_type |-> PatternFraudType("illegal_resale"), confidence |-> 80,
        evidence |-> EmptyDict, severity |-> "critical"],
       [name |-> "large_payment", pattern_type |-> "price_manipulation",
        fraud_type |-> PatternFraudType("payment_fraud"), confidence |-> 80,
        evidence |-> EmptyDict, severity |-> "high"]>>}

\* FraudDetector._determine_action applied to a score and a fraud-type list.
DetermineAction ==
    /\ probe = NoProbe
    /\ \E risk_score \in Scores, fraud_types \in FraudTypeLists :
        probe' = [fn |-> "determine_action", score |-> risk_score,
                  fraud_types |-> fraud_types,
                  out |-> determine_action(risk_score, fraud_types)]
    /\ UNCHANGED detector_vars

\* RiskScorer._get_risk_level applied to a score.
GetRiskLevel ==
    /\ probe = NoProbe
    /\ \E score \in Scores :
        probe' = [fn |-> "get_risk_level", score |-> score,
                  out |-> get_risk_level(score)]
    /\ UNCHANGED detector_vars

\* RiskScorer.calculate_score applied to an event, with the scorer
\* configured and calibrated in any of the ways above.
CalculateScore ==
    /\ probe = NoProbe
    /\ \E data \in PaymentEvents(now) \cup ScanEvents(now),
          fraud_types \in FraudTypeLists,
          anomaly_scores \in AnomalyScoreDicts,
          pattern_matches \in PatternMatchLists,
          configured \in ConfiguredWeights,
          calibration \in Calibrations :
        probe' = [fn |-> "calculate_score", fraud_types |-> fraud_types,
                  weights |-> configured, calibration_params |-> calibration,
                  out |-> calculate_score(data, fraud_types, anomaly_scores,
                                          pattern_matches, configured, calibration,
                                          user_profiles)]
    /\ UNCHANGED detector_vars

DecisionNext ==
    \/ DetermineAction
    \/ GetRiskLevel
    \/ CalculateScore

DecisionSpec == Init /\ [][DecisionNext]_vars

(***************************************************************************)
(* Properties                                                              *)
(***************************************************************************)

\* The names of the critical fraud types.
CriticalNames == {"duplicate_ticket", "falsified_ticket", "payment_fraud"}

\* The last call returned the result of the normal path.
ReturnedNormal ==
    /\ outcome.kind = "returned"
    /\ "error" \notin DOMAIN outcome.result.details

\* The last call returned the safe default of the except clause.
ReturnedFallback ==
    /\ outcome.kind = "returned"
    /\ "error" \in DOMAIN outcome.result.details

\* C1: every result returned by check_transaction whose fraud_types hold
\* duplicate ticket, falsified ticket or payment fraud, reported by a
\* sub-check or mapped from a pattern match, has action BLOCK, should_block
\* and alert_required, whatever its risk score.
C1_CriticalTypeBlocks ==
    (/\ outcome.kind = "returned"
     /\ \E i \in DOMAIN outcome.result.fraud_types :
            FraudTypeValue(outcome.result.fraud_types[i]) \in CriticalNames)
    => /\ outcome.result.action = "block"
       /\ outcome.result.should_block
       /\ outcome.result.alert_required

\* C2: in every result returned by check_transaction, on the normal path
\* and on the fallback path, should_block is true exactly when the action
\* is BLOCK.
C2_ShouldBlockIffBlock ==
    outcome.kind = "returned"
    => (outcome.result.should_block <=> outcome.result.action = "block")

\* A blocked call on the normal path, followed by a call that fell back.
C2_Witness ==
    /\ stats.blocked > 0
    /\ ReturnedFallback
    /\ ~outcome.result.should_block
    /\ outcome.result.action = "allow"

\* C3: when the fraud types hold no critical type, _determine_action
\* follows the score alone: >= 75 BLOCK with block and alert; 50 to 75
\* REVIEW without block, with alert exactly from 60; 30 to 50 FLAG and below
\* 30 ALLOW, both without block and alert.
C3_ScoreThresholds ==
    (/\ probe.fn = "determine_action"
     /\ \A i \in DOMAIN probe.fraud_types :
            FraudTypeValue(probe.fraud_types[i]) \notin CriticalNames)
    => /\ probe.score >= 7500
            => probe.out = [action |-> "block", should_block |-> TRUE,
                            alert_required |-> TRUE]
       /\ (probe.score >= 5000 /\ probe.score < 7500)
            => probe.out = [action |-> "review", should_block |-> FALSE,
                            alert_required |-> (probe.score >= 6000)]
       /\ (probe.score >= 3000 /\ probe.score < 5000)
            => probe.out = [action |-> "flag", should_block |-> FALSE,
                            alert_required |-> FALSE]
       /\ probe.score < 3000
            => probe.out = [action |-> "allow", should_block |-> FALSE,
                            alert_required |-> FALSE]

\* A REVIEW at 59.99 with a non-critical fraud type: no alert yet.
C3_Witness ==
    /\ probe.fn = "determine_action"
    /\ probe.score = 5999
    /\ probe.fraud_types = <<FraudType("abnormal_transaction")>>
    /\ probe.out.action = "review"
    /\ ~probe.out.alert_required

\* C4: for a score in [0, 100] the risk level is CRITICAL from 75, HIGH
\* from 50 to 75, MEDIUM from 30 to 50 and LOW below 30, and the level of a
\* RiskScore is the level of the score of the same RiskScore.
C4_RiskLevels ==
    /\ probe.fn = "get_risk_level"
        => /\ probe.out = "critical" <=> probe.score >= 7500
           /\ probe.out = "high" <=> (probe.score >= 5000 /\ probe.score < 7500)
           /\ probe.out = "medium" <=> (probe.score >= 3000 /\ probe.score < 5000)
           /\ probe.out = "low" <=> probe.score < 3000
    /\ probe.fn = "calculate_score"
        => /\ probe.out.level = "critical" <=> probe.out.score >= 7500
           /\ probe.out.level = "high"
                <=> (probe.out.score >= 5000 /\ probe.out.score < 7500)
           /\ probe.out.level = "medium"
                <=> (probe.out.score >= 3000 /\ probe.out.score < 5000)
           /\ probe.out.level = "low" <=> probe.out.score < 3000

\* The level at exactly 75 points.
C4_Witness ==
    /\ probe.fn = "get_risk_level"
    /\ probe.score = 7500
    /\ probe.out = "critical"

\* C5: for any anomaly scores, pattern matches, fraud types, configured
\* weights and calibration, the score of calculate_score lies in [0, 100].
C5_ScoreInRange ==
    probe.fn = "calculate_score" => (probe.out.score >= 0 /\ probe.out.score <= Pts(100))

\* A calibration that scales by ten and shifts by 500 points, with fraud
\* types to boost for: the score is held at 100.
C5_Witness ==
    /\ probe.fn = "calculate_score"
    /\ probe.calibration_params = [score_shift |-> Pts(500), score_scale |-> 1000]
    /\ probe.fraud_types /= <<>>
    /\ probe.out.score = Pts(100)

\* C6: for a well-formed event, in every reachable detector state, with or
\* without a prior initialize, and whatever raises in a sub-check, in
\* pattern matching, in risk fusion, in the statistics update or in alert
\* generation, check_transaction returns a result and lets no exception
\* reach its caller.
C6_AlwaysReturns ==
    (calls > 0 /\ WellFormed(call.data)) => outcome.kind = "returned"

\* A first call in which alert generation raised, after the statistics
\* had been updated.
C6_Witness ==
    /\ calls = 1
    /\ stats.total_checks = 1
    /\ WellFormed(call.data)
    /\ call.fault.stage = "alert"
    /\ call.error = "alert"
    /\ outcome.kind = "returned"

\* C7: when pattern matching, risk fusion or a later step raises, the call
\* returns the fail-open fallback: score 0, level LOW, action ALLOW, no
\* fraud types, no block, no alert, the error in the details and the
\* recommendation of a manual review.
C7_FailOpenFallback ==
    call.error \in {"pattern", "risk", "stats", "alert"}
    => /\ outcome.kind = "returned"
       /\ outcome.result.risk_score = 0
       /\ outcome.result.risk_level = "low"
       /\ outcome.result.action = "allow"
       /\ outcome.result.fraud_types = <<>>
       /\ ~outcome.result.should_block
       /\ ~outcome.result.alert_required
       /\ DOMAIN outcome.result.details = {"error"}
       /\ outcome.result.recommendations
            = <<"Error during check - manual review recommended">>

\* Risk fusion raised after the sub-checks had reported fraud types.
C7_Witness ==
    /\ call.error = "risk"
    /\ call.checked /= <<>>
    /\ ReturnedFallback
    /\ outcome.result.action = "allow"

\* The fraud types of the sub-checks of the last call that did not raise,
\* in dispatch order.
SurvivingTypes ==
    LET part(i) == IF i \in call.fault.failed THEN <<>> ELSE call.checks[i].fraud_types
    IN  part(1) \o part(2) \o part(3) \o part(4) \o part(5)

\* The details of the sub-checks of the last call that did not raise, a
\* later sub-check overwriting the keys of an earlier one.
SurvivingDetails ==
    LET part(i) == IF i \in call.fault.failed THEN EmptyDict ELSE call.checks[i].details
    IN  Update(Update(Update(Update(part(1), part(2)), part(3)), part(4)), part(5))

C9_MalformedRejected ==
    (calls > 0 /\ ~WellFormed(call.data))
    => /\ outcome.kind = "rejected"
       /\ call.ran = {}

\* The scan of the last call's ticket that came before the last call's.
PreviousScan ==
    LET log == Get(scan_log, call.data.ticket_id, <<>>)
    IN  log[Len(log) - 1]

\* C10: a ticket scanned at one zone and scanned again at another zone less
\* than 300 seconds later, the first scan still inside the 4-hour window:
\* the second call reports duplicate ticket, with action BLOCK and
\* should_block.
C10_DuplicateScanBlocked ==
    (/\ calls > 0
     /\ call.data.transaction_type = "ticket_scan"
     /\ WellFormed(call.data)
     /\ call.fault = NoFault
     /\ Len(Get(scan_log, call.data.ticket_id, <<>>)) >= 2
     /\ Truthy(PreviousScan.zone)
     /\ Truthy(call.data.zone_id)
     /\ PreviousScan.zone /= call.data.zone_id
     /\ call.data.timestamp - PreviousScan.ts < 300
     /\ PreviousScan.ts > call.at - 14400)
    => /\ outcome.kind = "returned"
       /\ \E i \in DOMAIN outcome.result.fraud_types :
            FraudTypeValue(outcome.result.fraud_types[i]) = "duplicate_ticket"
       /\ outcome.result.action = "block"
       /\ outcome.result.should_block

\* Ticket T1 scanned at zone A at t0 and at zone B at t0 + 120 s.
C10_Witness ==
    /\ calls = 2
    /\ call.data.transaction_type = "ticket_scan"
    /\ call.data.ticket_id = "T1"
    /\ call.data.zone_id = "B"
    /\ call.fault = NoFault
    /\ Len(Get(scan_log, "T1", <<>>)) = 2
    /\ PreviousScan = [ts |-> StartTime, zone |-> "A"]
    /\ call.data.timestamp = StartTime + 120
    /\ outcome.result.action = "block"

(***************************************************************************)
(* A burst of top-ups by one user                                          *)
(***************************************************************************)

\* Top-ups in one burst.
MaxTopUps == 11

\* Seconds between two top-ups of a burst; ten gaps stay inside five minutes.
TopUpGaps == {29}

\* The velocity counts a caller that keeps them itself would put in the
\* metadata of the eleventh top-up.
CountedMetadata ==
    [k \in {"tx_count_5min", "tx_count_1h"} |-> MaxTopUps]

\* A cashless top-up of 40.00 by user U1 scored by check_transaction; the
\* last top-up of the burst may carry the caller's velocity counts.
TopUp ==
    /\ calls < MaxTopUps
    /\ \E metadata \in {EmptyDict} \cup (IF calls = MaxTopUps - 1 THEN {CountedMetadata} ELSE {}) :
        check_transaction(
            TransactionData("tx", "U1", "F1", "cashless_topup", <<4000>>, now, None, None,
                            metadata),
            NoFault)

\* A few seconds pass after a top-up.
Wait ==
    /\ calls > 0
    /\ calls < MaxTopUps
    /\ call.at = now
    /\ \E d \in TopUpGaps : now' = now + d
    /\ UNCHANGED <<ticks, initialized, ticket_scan_cache, user_transaction_cache,
                   device_user_cache, ip_user_cache, tx_history, user_profiles,
                   rules, enabled_rules, ml_is_trained, weights, calibration_params,
                   alerts, stats, outcome, call, scan_log, account_log, feedback_buffer, training, in_flight, calls, faulty_calls, probe>>

BurstNext ==
    \/ TopUp
    \/ Wait

BurstSpec == Init /\ [][BurstNext]_vars

\* The last call was the eleventh of eleven top-ups by its user, all inside
\* five minutes.
EleventhTopUp ==
    /\ calls = 11
    /\ call.data.transaction_type = "cashless_topup"
    /\ LET seen == Get(user_transaction_cache, call.data.user_id, <<>>)
       IN  /\ Len(seen) = 11
           /\ seen[11] = call.data.timestamp
           /\ seen[11] - seen[1] < 300

\* C11: after 11 cashless top-ups by one user inside five minutes, scored
\* one after another, the 11th result has velocity abuse among its fraud
\* types, a velocity factor of 100 in the risk fusion and an action of
\* REVIEW or BLOCK.
C11_BurstReviewed ==
    EleventhTopUp
    => /\ ReturnedNormal
       /\ \E i \in DOMAIN outcome.result.fraud_types :
            FraudTypeValue(outcome.result.fraud_types[i]) = "velocity_abuse"
       /\ call.factors["velocity"] = Pts(100)
       /\ outcome.result.action \in {"review", "block"}

(***************************************************************************)
(* Many users behind one device and one address                            *)
(***************************************************************************)

\* Calls of one crowd scenario.
MaxVisits == 12

\* Users of the crowd, in their order of arrival.
MaxUsers == 11

UserNames == <<"U1", "U2", "U3", "U4", "U5", "U6", "U7", "U8", "U9", "U10", "U11",
               "U12", "U13">>

\* The users recorded by the fan-out check so far.
Arrived == {e[3] : e \in account_log}

\* The first users of the crowd may come through the shared device.
MaxDeviceUsers == 4

\* Calls a scenario may spend on a user who has already arrived.
MaxRepeats == 1

\* The latest call after which a scenario may run the cleanup.
MaxSweepAt == 4

\* Where a call of a user may come from: device fingerprint and IP address.
Origins(user) ==
    IF \E i \in 1..MaxDeviceUsers \cap DOMAIN UserNames : UserNames[i] = user
    THEN {<<"D1", "IP1">>, <<None, "IP1">>, <<"D1", None>>}
    ELSE {<<None, "IP1">>}

\* A small payment scored by check_transaction, made by the next user to
\* arrive or by the first one again, from one of the origins.
Visit ==
    /\ calls < MaxVisits
    /\ \E user \in (IF calls < Cardinality(Arrived) + MaxRepeats THEN {UserNames[1]} ELSE {})
                   \cup {UserNames[i] : i \in {Cardinality(Arrived) + 1} \cap 1..MaxUsers
                                       \cap DOMAIN UserNames} :
       \E origin \in Origins(user) :
        check_transaction(
            [TransactionData("tx", user, "F1", "cashless_payment", <<500>>, now, None, None,
                             EmptyDict)
                EXCEPT !.device_fingerprint = origin[1], !.ip_address = origin[2]],
            NoFault)

\* The cleanup, early in the scenario.
Sweep ==
    /\ calls <= MaxSweepAt
    /\ Cleanup

CrowdNext ==
    \/ Visit
    \/ Sweep

CrowdSpec == Init /\ [][CrowdNext]_vars

\* The distinct users the fan-out check has seen on a device fingerprint or
\* an IP address since the last cleanup.
UsersOn(kind, key) == {e[3] : e \in {x \in account_log : x[1] = kind /\ x[2] = key}}

\* The last call returned a scored result, none of its steps raised, and no
\* cleanup has run since.
ScoredCleanly ==
    /\ call.fault = NoFault
    /\ ReturnedNormal
    /\ \E e \in account_log :
         /\ e[3] = call.data.user_id
         /\ e[2] \in {call.data.device_fingerprint, call.data.ip_address}

ReportsMultipleAccounts ==
    \E i \in DOMAIN outcome.result.fraud_types :
        outcome.result.fraud_types[i] = FraudType("multiple_accounts")

CrowdedDevice ==
    /\ Truthy(call.data.device_fingerprint)
    /\ Cardinality(UsersOn("device", call.data.device_fingerprint)) > 3

CrowdedAddress ==
    /\ Truthy(call.data.ip_address)
    /\ Cardinality(UsersOn("ip", call.data.ip_address)) > 10

\* C12: a call reports multiple accounts exactly when, counting the current
\* user, its device fingerprint has been used by more than 3 distinct users
\* or its IP address by more than 10 distinct users since the last cleanup.
C12_MultipleAccountsIff ==
    ScoredCleanly => (ReportsMultipleAccounts <=> (CrowdedDevice \/ CrowdedAddress))

\* The fourth distinct user on a device is flagged, the address being quiet.
C12_Witness ==
    /\ ScoredCleanly
    /\ ReportsMultipleAccounts
    /\ Cardinality(UsersOn("device", call.data.device_fingerprint)) = 4
    /\ call.data.user_id = "U4"
    /\ ~CrowdedAddress

(***************************************************************************)
(* One ticket scanned many times                                           *)
(***************************************************************************)

\* Scans of one gate scenario.
MaxScans == 12

\* Pauses of one gate scenario.
MaxPauses == 2

\* Scans of one gate scenario made at the second gate.
MaxOtherGate == 1

\* How long a pause lasts: two minutes, or the whole scan window.
PauseSteps == {120, SCAN_WINDOW_S}

\* The scans of ticket T1 its ticket check has run for since the last cleanup.
Scanned == Get(scan_log, "T1", <<>>)

\* A scan of ticket T1 scored by check_transaction, at gate A or, a few
\* times, at gate B.
Scan ==
    /\ calls < MaxScans
    /\ \E zone \in {"A"} \cup (IF Cardinality({i \in DOMAIN Scanned : Scanned[i].zone = "B"})
                                    < MaxOtherGate
                              THEN {"B"} ELSE {}) :
        check_transaction(
            TransactionData("tx", "U1", "F1", "ticket_scan", <<>>, now, zone, "T1", EmptyDict),
            NoFault)

\* Time passes between two scans.
Pause ==
    /\ ticks < MaxPauses
    /\ calls > 0
    /\ calls < MaxScans
    /\ call.at = now
    /\ \E d \in PauseSteps : now' = now + d
    /\ ticks' = ticks + 1
    /\ UNCHANGED <<initialized, ticket_scan_cache, user_transaction_cache,
                   device_user_cache, ip_user_cache, tx_history, user_profiles,
                   rules, enabled_rules, ml_is_trained, weights, calibration_params,
                   alerts, stats, outcome, call, scan_log, account_log, feedback_buffer, training, in_flight, calls,
                   faulty_calls, probe>>

GateNext ==
    \/ Scan
    \/ Pause

GateSpec == Init /\ [][GateNext]_vars

\* The scans of the last call's ticket that ran before it.
EarlierScans ==
    LET log == Get(scan_log, call.data.ticket_id, <<>>)
    IN  SubSeq(log, 1, Len(log) - 1)

\* Those of them that were at most four hours old when the last call ran.
FreshScans == SelectSeq(EarlierScans, LAMBDA scan : scan.ts > call.at - 4 * 3600)

\* The last call was a ticket scan whose ticket check ran.
ScanChecked ==
    /\ call.data.transaction_type = "ticket_scan"
    /\ 1 \in call.ran
    /\ Get(scan_log, call.data.ticket_id, <<>>) /= <<>>

\* C13: the ticket-scan cache holds at most 10 entries for every ticket, and
\* a scan more than 4 hours old is never used to decide duplicate-ticket or
\* excessive-scan for a later scan: the scan a duplicate is measured
\* against and the scans counted as excessive are all among the fresh ones.
C13_ScanCacheBounded ==
    /\ \A t \in DOMAIN ticket_scan_cache : Len(ticket_scan_cache[t]) <= 10
    /\ ScanChecked =>
        LET found == call.checks[1].details
        IN  /\ "duplicate_ticket" \in DOMAIN found
                => /\ FreshScans /= <<>>
                   /\ found["duplicate_ticket"].last_scan_time
                        = FreshScans[Len(FreshScans)].ts
                   /\ found["duplicate_ticket"].last_zone
                        = FreshScans[Len(FreshScans)].zone
            /\ "excessive_scans" \in DOMAIN found
                => found["excessive_scans"].scan_count <= Len(FreshScans)
            /\ FreshScans = <<>> => call.checks[1].fraud_types = <<>>

\* A scan at the other gate arrives after ten scans that are all stale by
\* then, and is not flagged.
C13_Witness ==
    /\ ScanChecked
    /\ Len(EarlierScans) >= 10
    /\ FreshScans = <<>>
    /\ call.data.zone_id /= EarlierScans[Len(EarlierScans)].zone
    /\ call.checks[1].fraud_types = <<>>
    /\ Len(ticket_scan_cache["T1"]) = 1

(***************************************************************************)
(* A few events of every kind, hours apart                                 *)
(***************************************************************************)

\* Calls of one mixed scenario.
MaxEvents == 5

\* A scan of ticket T1, or a small payment by one of two users from the
\* same device and address, scored by check_transaction.
Event ==
    /\ calls < MaxEvents
    /\ \E data \in {TransactionData("tx", "U1", "F1", "ticket_scan", <<>>, now, "A", "T1",
                                    EmptyDict)}
                   \cup {TransactionData("tx", user, "F1", "cashless_payment", <<500>>, now,
                                         None, None, EmptyDict) : user \in {"U1", "U2"}} :
        check_transaction(data, NoFault)

MixedNext ==
    \/ Event
    \/ Pause

MixedSpec == Init /\ [][MixedNext]_vars

\* The longest time window and the largest entry cap of the four caches.
LongestWindow == Max(SCAN_WINDOW_S, HOUR_S)

LargestCap == Max(SCAN_KEEP, USER_TX_KEEP)

\* The time at which the fan-out check last recorded a user on a device
\* fingerprint or an IP address.
RecordedAt(kind, key, user) ==
    LET e == CHOOSE x \in account_log : x[1] = kind /\ x[2] = key /\ x[3] = user
    IN  e[4]

\* C14: after a call has mutated them, each of the four caches is bounded
\* for the call's key by an entry-count cap and by a time-window cutoff: the
\* ticket's scans and the user's transactions are within their cap and
\* window, and the users kept for the device fingerprint and for the IP
\* address are within the largest cap and were all recorded within the
\* longest window.
C14_CachesBounded ==
    (calls > 0 /\ call.fault = NoFault /\ call.at = now)
    => LET data == call.data
       IN  /\ (data.transaction_type = "ticket_scan" /\ Truthy(data.ticket_id))
                => LET scans == ticket_scan_cache[data.ticket_id]
                   IN  /\ Len(scans) <= SCAN_KEEP
                       /\ \A i \in DOMAIN scans : scans[i].ts > call.at - SCAN_WINDOW_S
           /\ data.user_id \in DOMAIN user_transaction_cache
                => LET seen == user_transaction_cache[data.user_id]
                   IN  /\ Len(seen) <= USER_TX_KEEP
                       /\ \A i \in DOMAIN seen : seen[i] > call.at - HOUR_S
           /\ data.device_fingerprint \in DOMAIN device_user_cache
                => LET users == device_user_cache[data.device_fingerprint]
                   IN  /\ Cardinality(users) <= LargestCap
                       /\ \A u \in users :
                            RecordedAt("device", data.device_fingerprint, u)
                                > call.at - LongestWindow
           /\ data.ip_address \in DOMAIN ip_user_cache
                => LET users == ip_user_cache[data.ip_address]
                   IN  /\ Cardinality(users) <= LargestCap
                       /\ \A u \in users :
                            RecordedAt("ip", data.ip_address, u) > call.at - LongestWindow

(***************************************************************************)
(* Manual reports, queries and training                                    *)
(***************************************************************************)

\* A value of a caller-supplied dict: a string, a hash string, a number, a
\* flag, or a dict of such values by key.
Leaf(tag, text, num) == [kind |-> "leaf", tag |-> tag, text |-> text, num |-> num, items |-> EmptyDict]

DictOf(items) == [kind |-> "dict", tag |-> "dict", text |-> "", num |-> 0, items |-> items]

Text(s) == Leaf("str", s, 0)

Number(n) == Leaf("int", "", n)

Flag(b) == Leaf("bool", IF b THEN "True" ELSE "False", 0)

\* The string _hash_for_gdpr returns, as a value of a dict.
Hashed(h) == Leaf(h[1], h[2], 0)

\* len(self._feedback_buffer) >= 100 of learn_from_report
FEEDBACK_BATCH == 100

\* len(self._feedback_buffer) < 10 of _batch_train
FEEDBACK_MIN == 10

\* The keys of a context whose values MLPatternRecognizer._extract_features
\* puts into its float32 feature vector as they are.
FeatureKeys ==
    {"amount", "transaction_count_1h", "transaction_count_24h", "total_amount_1h",
     "total_amount_24h", "hour", "day_of_week", "account_age_days", "total_transactions",
     "avg_transaction_amount", "users_per_device", "users_per_ip",
     "minutes_since_last_tx", "topup_count_1h", "refund_count_30d", "ticket_count_24h",
     "unique_categories"}

\* np.array(features, dtype=np.float32) raises for a feature that is no
\* number: a dict, None, or a string that does not read as a number (the
\* strings of the scenarios do not).
extract_features_raises(context) ==
    \E k \in FeatureKeys \cap DOMAIN context :
        context[k].kind = "dict" \/ context[k].tag \in {"str", "none"}

\* MLPatternRecognizer.train on a list of contexts: skipped without sklearn,
\* else the features are extracted and the forest is fitted.
ml_train(training_data, sklearn) ==
    IF ~sklearn THEN "skipped"
    ELSE IF \E i \in DOMAIN training_data : extract_features_raises(training_data[i])
    THEN "raised"
    ELSE "success"

\* PatternRecognizer._batch_train: trains the ML recognizer from the
\* buffered reports and clears the buffer; when the training raises, the
\* exception leaves _batch_train before the clear.  trained_on is the size
\* of the batch handed to the training, 0 when none was.
batch_train(buffer, is_trained, sklearn) ==
    IF Len(buffer) < FEEDBACK_MIN
    THEN [feedback_buffer |-> buffer, ml_is_trained |-> is_trained, raised |-> FALSE,
          trained_on |-> 0]
    ELSE LET trained == ml_train([i \in DOMAIN buffer |-> buffer[i].evidence], sklearn)
         IN  IF trained = "raised"
             THEN [feedback_buffer |-> buffer, ml_is_trained |-> is_trained,
                   raised |-> TRUE, trained_on |-> Len(buffer)]
             ELSE [feedback_buffer |-> <<>>,
                   ml_is_trained |-> is_trained \/ trained = "success",
                   raised |-> FALSE, trained_on |-> Len(buffer)]

\* A learn_from_report that only logs the report.
learn_from_report_unbuffered(buffer, is_trained, fraud_type, evidence, sklearn) ==
    [feedback_buffer |-> buffer, ml_is_trained |-> is_trained, raised |-> FALSE,
     trained_on |-> 0]

\* PatternRecognizer.learn_from_report
learn_from_report(buffer, is_trained, fraud_type, evidence, sklearn) ==
    LET buffered == Append(buffer, [evidence |-> evidence, fraud_type |-> fraud_type])
    IN  IF Len(buffered) >= FEEDBACK_BATCH
        THEN batch_train(buffered, is_trained, sklearn)
        ELSE [feedback_buffer |-> buffered, ml_is_trained |-> is_trained, raised |-> FALSE,
              trained_on |-> 0]

\* The FraudAlert built by report_fraud; evidence is the caller's dict, {}
\* for None.
manual_alert(transaction_id, user_id, festival_id, fraud_type, reporter_id, evidence, at) ==
    [alert_id |-> <<"manual", transaction_id, at>>,
     timestamp |-> at,
     severity |-> "high",
     fraud_type |-> fraud_type,
     risk_score |-> Pts(80),
     transaction_id |-> transaction_id,
     user_id |-> hash_for_gdpr(user_id),
     festival_id |-> festival_id,
     evidence |-> Update(("reporter_id" :> Hashed(hash_for_gdpr(reporter_id)))
                            @@ ("manual_report" :> Flag(TRUE)),
                         evidence),
     recommended_action |-> "review",
     auto_blocked |-> FALSE]

\* Manual reports of one scenario.
MaxReports == 2

\* The alerts of the store that report_fraud put there.
ManualAlerts == SelectSeq(alerts, LAMBDA a : a.alert_id[1] = "manual")

\* The fraud types staff report.
ReportedTypes == {FraudType("payment_fraud")}

\* The evidence staff attach to a report: none, the address the user came
\* from, or the device inside a context dict.
ReportEvidence ==
    {EmptyDict,
     "ip_address" :> Text("IP1"),
     "context" :> DictOf("device_id" :> Text("D1"))}

\* A report_fraud that stores its alert without counting it.
report_fraud_uncounted(transaction_id, user_id, festival_id, fraud_type, reporter_id, evidence) ==
    /\ alerts' = Append(alerts, manual_alert(transaction_id, user_id, festival_id,
                                             fraud_type, reporter_id, evidence, now))
    /\ stats' = stats
    /\ \E sklearn \in BOOLEAN :
       \E learned \in {learn_from_report(feedback_buffer, ml_is_trained, fraud_type,
                                         evidence, sklearn)} :
        /\ feedback_buffer' = learned.feedback_buffer
        /\ ml_is_trained' = learned.ml_is_trained
    /\ UNCHANGED <<initialized, now, ticket_scan_cache, user_transaction_cache,
                   device_user_cache, ip_user_cache, tx_history, user_profiles, rules,
                   enabled_rules, weights, calibration_params, outcome, call, scan_log,
                   account_log, training, in_flight, calls, faulty_calls, ticks, probe>>

\* FraudDetector.report_fraud
report_fraud(transaction_id, user_id, festival_id, fraud_type, reporter_id, evidence) ==
    /\ alerts' = Append(alerts, manual_alert(transaction_id, user_id, festival_id,
                                             fraud_type, reporter_id, evidence, now))
    /\ stats' = [stats EXCEPT !.alerts_generated = @ + 1]
    /\ \E sklearn \in BOOLEAN :
       \E learned \in {learn_from_report(feedback_buffer, ml_is_trained, fraud_type,
                                         evidence, sklearn)} :
        /\ feedback_buffer' = learned.feedback_buffer
        /\ ml_is_trained' = learned.ml_is_trained
    /\ UNCHANGED <<initialized, now, ticket_scan_cache, user_transaction_cache,
                   device_user_cache, ip_user_cache, tx_history, user_profiles, rules,
                   enabled_rules, weights, calibration_params, outcome, call, scan_log,
                   account_log, training, in_flight, calls, faulty_calls, ticks, probe>>

ReportFraud ==
    /\ Len(ManualAlerts) < MaxReports
    /\ \E fraud_type \in ReportedTypes :
       \E evidence \in ReportEvidence :
        report_fraud("tx", "U1", "F1", fraud_type, "S1", evidence)

\* sorted(alerts, key=lambda a: a.timestamp, reverse=True), which keeps
\* alerts of one timestamp in their order.
RECURSIVE sorted_newest_first(_)
sorted_newest_first(found) ==
    IF found = <<>> THEN <<>>
    ELSE LET a == found[Len(found)]
             before == sorted_newest_first(SubSeq(found, 1, Len(found) - 1))
             ahead == SelectSeq(before, LAMBDA b : b.timestamp >= a.timestamp)
             behind == SelectSeq(before, LAMBDA b : b.timestamp < a.timestamp)
         IN  ahead \o <<a>> \o behind

\* FraudDetector.get_alerts; severity is None or a severity, since is <<>>
\* for None or <<t>>.
get_alerts(limit, severity, since) ==
    LET by_severity == IF Truthy(severity)
                       THEN SelectSeq(alerts, LAMBDA a : a.severity = severity)
                       ELSE alerts
        by_time == IF since /= <<>>
                   THEN SelectSeq(by_severity, LAMBDA a : a.timestamp >= since[1])
                   ELSE by_severity
        newest == sorted_newest_first(by_time)
    IN  SubSeq(newest, 1, Min(limit, Len(newest)))

\* FraudDetector.get_statistics
get_statistics ==
    [stats |-> stats,
     pending_alerts |-> Len(alerts),
     cache_sizes |-> [ticket_scans |-> Cardinality(DOMAIN ticket_scan_cache),
                      user_transactions |-> Cardinality(DOMAIN user_transaction_cache),
                      device_users |-> Cardinality(DOMAIN device_user_cache),
                      ip_users |-> Cardinality(DOMAIN ip_user_cache)]]

\* A get_alerts call; what it returns goes to its caller.
GetAlerts ==
    /\ probe = NoProbe
    /\ alerts /= <<>>
    /\ \E query \in {<<1, None, <<>> >>, <<100, "high", <<>> >>, <<100, None, <<now>> >>} :
        probe' = [fn |-> "get_alerts", limit |-> query[1], severity |-> query[2],
                  since |-> query[3], out |-> get_alerts(query[1], query[2], query[3])]
    /\ UNCHANGED detector_vars

\* A get_statistics call; what it returns goes to its caller.
GetStatistics ==
    /\ probe = NoProbe
    /\ probe' = [fn |-> "get_statistics", out |-> get_statistics]
    /\ UNCHANGED detector_vars

\* sensitive_fields of _anonymize_for_training
SensitiveFields ==
    {"user_id", "email", "phone", "name", "ip_address", "device_id",
     "device_fingerprint", "address"}

\* f"{key}_hash"
HashKey(key) == key \o "_hash"

\* Python's truth value of a dict value.
TruthyValue(v) ==
    CASE v.kind = "dict" -> DOMAIN v.items /= {}
      [] v.tag = "int" -> v.num /= 0
      [] v.tag = "none" -> FALSE
      [] v.tag = "bool" -> v.text = "True"
      [] OTHER -> v.text /= ""

\* str(value) of a string or number; a dict's str is its printed form, kept
\* here as the name of the dict.
StrOf(v) ==
    CASE v.kind = "dict" -> "dict"
      [] v.tag = "int" -> ToString(v.num)
      [] OTHER -> v.text

\* FraudDetector._anonymize_for_training: a top-level sensitive field with a
\* truthy value becomes <key>_hash, one with a falsy value is dropped, and
\* every other field is copied as it is.
anonymize_for_training(data) ==
    LET kept == DOMAIN data \ SensitiveFields
        hashed == {k \in DOMAIN data \cap SensitiveFields : TruthyValue(data[k])}
    IN  [k \in kept \cup {HashKey(h) : h \in hashed} |->
            IF k \in kept THEN data[k]
            ELSE LET h == CHOOSE x \in hashed : HashKey(x) = k
                 IN  Hashed(hash_for_gdpr(StrOf(data[h])))]

\* The integer square root of n, by Newton's iteration from r.
RECURSIVE ISqrtFrom(_, _)
ISqrtFrom(n, r) ==
    LET next == (r + n \div r) \div 2
    IN  IF next >= r THEN r ELSE ISqrtFrom(n, next)

ISqrt(n) == IF n = 0 THEN 0 ELSE ISqrtFrom(n, n)

\* np.mean and np.std of the amounts of the records, d.get('amount', 0).
amount_stats(records) ==
    LET amounts == [i \in DOMAIN records |->
                        IF "amount" \in DOMAIN records[i] THEN records[i]["amount"].num ELSE 0]
        n == Len(amounts)
        mean == SeqSum(amounts) \div n
    IN  [amount_mean |-> mean,
         amount_std |-> ISqrt(SeqSum([i \in DOMAIN amounts |->
                                        (amounts[i] - mean) * (amounts[i] - mean)]) \div n)]

\* AnomalyDetector.train: fits the isolation forest where sklearn is there,
\* the autoencoder where tensorflow is, and resets the global amount
\* statistics from the records.
anomaly_train(records, sklearn, tensorflow) ==
    [is_trained |-> sklearn, ae_is_trained |-> tensorflow,
     global_stats |-> IF records /= <<>> THEN amount_stats(records)
                      ELSE training.global_stats]

\* No labels given to train.
NoLabels == [given |-> FALSE, values |-> <<>>]

\* RiskScorer.calibrate: with labels of both classes, the score shift becomes
\* (0.5 - fraud_ratio) * 20 points and the scale 1.0.
calibrate(records, labels) ==
    LET fraud == Cardinality({i \in DOMAIN labels.values : labels.values[i] = 1})
        legit == Cardinality({i \in DOMAIN labels.values : labels.values[i] = 0})
    IN  IF ~labels.given \/ labels.values = <<>> \/ fraud = 0 \/ legit = 0
        THEN calibration_params
        ELSE [score_shift |-> Pts(10) - (Pts(20) * fraud) \div Len(labels.values),
              score_scale |-> 100]

\* Records given to one train call.
TrainingRecords ==
    {("user_id" :> Text("U1")) @@ ("ip_address" :> Text("IP1")) @@ ("amount" :> Number(4000)),
     ("user_id" :> Text("")) @@ ("device_fingerprint" :> Text("D1"))
        @@ ("zone_id" :> Text("A")) @@ ("amount" :> Number(6000)),
     ("device_id" :> Text("D1")) @@ ("amount" :> Number(2000))
        @@ ("metadata" :> DictOf("ip_address" :> Text("IP1"))),
     ("name" :> Text("Ann")) @@ ("festival_id" :> Text("F1"))}

TrainingSets ==
    {<<r>> : r \in TrainingRecords} \cup {<<r, q>> : r, q \in TrainingRecords}

LabelsFor(training_data) ==
    {NoLabels}
    \cup {[given |-> TRUE, values |-> [i \in DOMAIN training_data |-> IF i = 1 THEN 1 ELSE 0]]}

\* FraudDetector.train, with the three training hooks it calls.
train(training_data, labels, sklearn, tensorflow) ==
    /\ \E anonymized_data \in {[i \in DOMAIN training_data |->
                                    anonymize_for_training(training_data[i])]} :
       \E fitted \in {anomaly_train(anonymized_data, sklearn, tensorflow)} :
        /\ training' = [given |-> training_data, handed |-> anonymized_data,
                        labels |-> labels, is_trained |-> fitted.is_trained,
                        ae_is_trained |-> fitted.ae_is_trained,
                        global_stats |-> fitted.global_stats]
        /\ ml_is_trained' = (ml_is_trained \/ (labels.given /\ sklearn))
        /\ calibration_params' = calibrate(anonymized_data, labels)
    /\ UNCHANGED <<initialized, now, ticket_scan_cache, user_transaction_cache,
                   device_user_cache, ip_user_cache, tx_history, user_profiles, rules,
                   enabled_rules, weights, alerts, stats, outcome, call, scan_log,
                   account_log, feedback_buffer, in_flight, calls, faulty_calls, ticks, probe>>

\* A first train call, on any of the training sets.
Train ==
    /\ training = NoTraining
    /\ \E training_data \in TrainingSets :
       \E labels \in LabelsFor(training_data) :
       \E sklearn \in BOOLEAN :
       \E tensorflow \in BOOLEAN :
        train(training_data, labels, sklearn, tensorflow)

\* A first train call of the service scenario, on two labelled records, in
\* a build without tensorflow.
Retrain ==
    /\ training = NoTraining
    /\ \E sklearn \in BOOLEAN :
        train(<<("user_id" :> Text("U1")) @@ ("amount" :> Number(4000)),
                ("user_id" :> Text("U2")) @@ ("amount" :> Number(6000))>>,
              [given |-> TRUE, values |-> <<1, 0>>], sklearn, FALSE)

TrainNext == Train

TrainSpec == Init /\ [][TrainNext]_vars

\* A check_transaction call of the service scenario, before any retraining:
\* a small top-up or a large purchase from a new device.
Score ==
    /\ training = NoTraining
    /\ calls < MaxCalls
    /\ \E data \in {TransactionData("tx", "U1", "F1", "cashless_topup", <<4000>>, now,
                                    None, None, EmptyDict),
                    TransactionData("tx", "U1", "F1", "ticket_purchase", <<150000>>, now,
                                    None, None, RiskyMetadata)} :
        check_transaction(data, NoFault)

ServiceNext ==
    \/ Score
    \/ ReportFraud
    \/ GetAlerts
    \/ GetStatistics
    \/ Retrain
    \/ Cleanup

ServiceSpec == Init /\ [][ServiceNext]_vars

\* The raw identifiers of users, addresses and devices the scenarios use.
Identifiers == {"U1", "U2", "IP1", "D1"}

\* A caller-supplied value holds a raw identifier, at any depth.
RECURSIVE Cleartext(_)
Cleartext(v) ==
    IF v.kind = "leaf" THEN v.tag = "str" /\ v.text \in Identifiers
    ELSE \E k \in DOMAIN v.items : Cleartext(v.items[k])

\* The evidence of an alert holds a raw identifier: in an alert of
\* report_fraud anywhere in its values, in an alert of check_transaction
\* under one of the keys that carry an identifier.
EvidenceInCleartext(alert) ==
    IF alert.alert_id[1] = "manual"
    THEN \E k \in DOMAIN alert.evidence : Cleartext(alert.evidence[k])
    ELSE \E k \in DOMAIN alert.evidence :
         \E f \in DOMAIN alert.evidence[k] \cap (SensitiveKeys \cup {"device_hash", "ip_hash"}) :
            alert.evidence[k][f][1] /= "sha256_16"

\* C15: for every alert of the store, put there by check_transaction or by
\* report_fraud, the user id is a fixed-length hash and no raw IP address,
\* device identifier, device fingerprint or user id is in the evidence, at
\* any depth, caller-supplied evidence included.
C15_AlertsAnonymized ==
    \A i \in DOMAIN alerts :
        /\ alerts[i].user_id[1] = "sha256_16"
        /\ ~EvidenceInCleartext(alerts[i])

\* A record handed to the training hooks holds a raw identifier, at any
\* depth.
RecordInCleartext(record) == \E k \in DOMAIN record : Cleartext(record[k])

\* Every sensitive field of a given record is gone from the handed one, with
\* at most its hash in its place, and every other field is there unchanged.
FieldsAnonymized(given, handed) ==
    /\ \A k \in DOMAIN given \cap SensitiveFields :
        /\ k \notin DOMAIN handed
        /\ HashKey(k) \in DOMAIN handed => handed[HashKey(k)].tag = "sha256_16"
    /\ \A k \in DOMAIN given \ SensitiveFields :
        k \in DOMAIN handed /\ handed[k] = given[k]

\* C16: every record train hands to the anomaly, pattern and risk-scorer
\* training hooks has no cleartext user id, IP address, device identifier
\* or device fingerprint: each sensitive field of the input record is
\* replaced by its hash or dropped, and every other field is passed through
\* unchanged.
C16_TrainingAnonymized ==
    \A i \in DOMAIN training.handed :
        /\ ~RecordInCleartext(training.handed[i])
        /\ FieldsAnonymized(training.given[i], training.handed[i])

(***************************************************************************)
(* The same call twice from one state                                      *)
(***************************************************************************)

\* Nothing returned yet.
NoReturn == [timestamp |-> 0, result |-> NoResult]

\* What check_transaction returns to its caller for the event data from the
\* present state of the detector when the wall clock reads at, no step
\* being made to fail and the set order of the process being hash_seed: the
\* FraudCheckResult, with the timestamp it reads from the clock and without
\* processing_time_ms, a measurement.  The caller keeps it in slot of its
\* notes.
returns_to_caller(data, at, hash_seed, notes, slot) ==
    \E ticket \in {check_ticket_fraud(data, ticket_scan_cache, at)} :
    \E anomaly \in {check_transaction_anomalies(data, tx_history, hash_seed)} :
    \E accounts \in {check_multiple_accounts(data, device_user_cache, ip_user_cache)} :
    \E velocity \in {check_velocity(data, user_transaction_cache, at)} :
    \E geolocation \in {check_geolocation(data)} :
    \E merged \in {process_results(
                    <<Settled(FALSE, ticket), Settled(FALSE, anomaly),
                      Settled(FALSE, accounts), Settled(FALSE, velocity),
                      Settled(FALSE, geolocation)>>)} :
    \E patterns \in {recognize_patterns(data, merged.details, rules, enabled_rules,
                                        ml_is_trained, <<>>)} :
    \E fraud_types \in {merge_pattern_types(merged.fraud_types, patterns)} :
    \E risk_result \in {calculate_score(data, fraud_types,
                            Get(merged.details, "anomaly_scores", EmptyDict),
                            patterns, weights, calibration_params, user_profiles)} :
    \E result \in {normal_result(data, risk_result, fraud_types,
                                 determine_action(risk_result.score, fraud_types),
                                 merged.details, patterns)} :
    \E error \in {raised_in(data, NoFault, merged, result)} :
        probe' = [notes EXCEPT
                    ![slot] = [timestamp |-> at,
                               result |-> check_outcome(data, error, result).result]]

\* How much later the second of two calls reads the clock.
ReplayGaps == {0, 1, SCAN_WINDOW_S}

\* An event is scored from the present state, as by one of two replicas of
\* the detector; the state is left as it is for the other.
ReplayFirst ==
    /\ probe = NoProbe
    /\ calls > 0
    /\ \E data \in ScanEvents(call.at) \cup PaymentEvents(call.at) :
       \E hash_seed \in HashSeeds :
        returns_to_caller(data, now, hash_seed,
                          [fn |-> "first", data |-> data, hash_seed |-> hash_seed, gap |-> 0,
                           first |-> NoReturn, second |-> NoReturn],
                          "first")
    /\ UNCHANGED detector_vars

\* The same event is scored from the same state, at once or later.
ReplaySecond ==
    /\ probe.fn = "first"
    /\ \E gap \in ReplayGaps :
        returns_to_caller(probe.data, now + gap, probe.hash_seed,
                          [probe EXCEPT !.fn = "replay", !.gap = gap], "second")
    /\ UNCHANGED detector_vars

\* The calls and the time that lead to the state the replay starts from.
ReplayedCall == probe = NoProbe /\ CheckTransaction

ReplayedTick == probe = NoProbe /\ Tick

ReplayNext ==
    \/ ReplayedCall
    \/ ReplayedTick
    \/ ReplayFirst
    \/ ReplaySecond

ReplaySpec == Init /\ [][ReplayNext]_vars

\* C17: two check_transaction calls made with the same event from the same
\* cache, history, calibration and rule state, with deterministic scorers,
\* return results equal in every field except processing_time_ms.
C17_SameStateSameResult ==
    probe.fn = "replay" => probe.first = probe.second

(***************************************************************************)
(* The alert store under the service's calls                               *)
(***************************************************************************)

\* C19: the alert store only grows by appending: whatever check_transaction,
\* report_fraud, get_alerts, get_statistics, train or cleanup call runs, the
\* alerts the store held before the call are still there after it, in the
\* same places and with every field as it was.
C19_AlertsAppendOnly ==
    [][/\ Len(alerts') >= Len(alerts)
       /\ SubSeq(alerts', 1, Len(alerts)) = alerts]_vars

\* An alert raised by a scored event is still first in the store after a
\* manual report, a retraining, a cleanup and a get_alerts query.
C19_Witness ==
    /\ Len(alerts) >= 2
    /\ alerts[1].alert_id[1] /= "manual"
    /\ \E i \in DOMAIN alerts : alerts[i].alert_id[1] = "manual"
    /\ training /= NoTraining
    /\ user_transaction_cache = EmptyDict
    /\ probe /= NoProbe
    /\ probe.fn = "get_alerts"


\* The report reached the feedback buffer once: the buffer is one entry
\* longer, or it had reached the batch size with this entry, was used for a
\* batch training and cleared.
HandedOnce ==
    \/ /\ Len(feedback_buffer') = Len(feedback_buffer) + 1
       /\ SubSeq(feedback_buffer', 1, Len(feedback_buffer)) = feedback_buffer
       /\ feedback_buffer'[Len(feedback_buffer')].fraud_type
             = alerts'[Len(alerts')].fraud_type
    \/ /\ Len(feedback_buffer) + 1 >= FEEDBACK_BATCH
       /\ feedback_buffer' = <<>>

\* C20: every report_fraud call bypasses scoring: it appends exactly one
\* alert, with risk score 80 and severity high, hands the report to the
\* feedback buffer of the pattern learning exactly once, and leaves the four
\* caches and the total, blocked and flagged counters as they were.
C20_ReportBypassesScoring ==
    [][ReportFraud =>
        /\ Len(alerts') = Len(alerts) + 1
        /\ SubSeq(alerts', 1, Len(alerts)) = alerts
        /\ alerts'[Len(alerts')].risk_score = Pts(80)
        /\ alerts'[Len(alerts')].severity = "high"
        /\ HandedOnce
        /\ UNCHANGED <<ticket_scan_cache, user_transaction_cache, device_user_cache,
                       ip_user_cache>>
        /\ stats'.total_checks = stats.total_checks
        /\ stats'.blocked = stats.blocked
        /\ stats'.flagged = stats.flagged
        /\ outcome' = outcome]_vars

\* Two reports were filed on a detector that has scored events: the caches
\* and the counters hold what the scored events left, the store and the
\* feedback buffer hold the two reports.
C20_Witness ==
    /\ Len(ManualAlerts) = 2
    /\ Len(feedback_buffer) = 2
    /\ \A i \in DOMAIN ManualAlerts :
        ManualAlerts[i].risk_score = Pts(80) /\ ManualAlerts[i].severity = "high"
    /\ stats.total_checks = calls
    /\ calls >= 1
    /\ stats.alerts_generated = Len(alerts)
    /\ "U1" \in DOMAIN user_transaction_cache


(***************************************************************************)
(* Scoring after a cleanup                                                 *)
(***************************************************************************)

\* Scored events of one scenario with cleanups.
MaxRescans == 4

\* A scan of ticket T1 at either gate, or a top-up, scored by
\* check_transaction.
Rescan ==
    /\ calls < MaxRescans
    /\ \E data \in ScanEvents(now)
                   \cup {TransactionData("tx", "U1", "F1", "cashless_topup", <<4000>>, now,
                                         None, None, EmptyDict)} :
        check_transaction(data, NoFault)

ClearedNext ==
    \/ Rescan
    \/ Pause
    \/ Cleanup

ClearedSpec == Init /\ [][ClearedNext]_vars

\* The four caches of the orchestrator, and the history of the anomaly
\* engine, hold what they hold in a detector that has scored nothing.
NothingCached ==
    /\ ticket_scan_cache = EmptyDict
    /\ user_transaction_cache = EmptyDict
    /\ device_user_cache = EmptyDict
    /\ ip_user_cache = EmptyDict
    /\ tx_history = EmptyDict

\* What a sub-check reports to check_transaction.
Reported(ran) == [fraud_types |-> ran.fraud_types, details |-> ran.details]

\* C21: after cleanup the four caches of the orchestrator are empty,
\* whatever calls came before, and the check_transaction that follows is
\* decided as if no event had been scored earlier: each of its sub-checks
\* reports what it reports on a detector that has scored nothing, so a
\* ticket scanned at another zone right after cleanup is no duplicate.
C21_CleanupForgetsScoredEvents ==
    [][/\ Cleanup => NothingCached'
       /\ (NothingCached /\ calls' = calls + 1) =>
            /\ call'.checks[1] = Reported(check_ticket_fraud(call'.data, EmptyDict, now))
            /\ \E hash_seed \in HashSeeds :
                call'.checks[2]
                    = Reported(check_transaction_anomalies(call'.data, EmptyDict, hash_seed))
            /\ call'.checks[3]
                    = Reported(check_multiple_accounts(call'.data, EmptyDict, EmptyDict))
            /\ call'.checks[4] = Reported(check_velocity(call'.data, EmptyDict, now))
            /\ FraudType("duplicate_ticket") \notin SeqToSet(outcome'.result.fraud_types)]_vars

\* A scan of T1 was blocked as a duplicate and alerted; after a cleanup, in
\* the same second, the ticket is scanned at the gate of the scan before the
\* blocked one and is no duplicate.
C21_Witness ==
    /\ calls >= 3
    /\ call.data.transaction_type = "ticket_scan"
    /\ call.checks[1].fraud_types = <<>>
    /\ Len(Get(ticket_scan_cache, "T1", <<>>)) = 1
    /\ \E i \in DOMAIN alerts :
        /\ alerts[i].fraud_type = FraudType("duplicate_ticket")
        /\ alerts[i].timestamp = call.at


(***************************************************************************)
(* Events that carry an amount and nothing else                            *)
(***************************************************************************)

\* Scored events of one amount scenario.
MaxAmountCalls == 2

\* The hours of the fifth day of the epoch at which an amount scenario
\* starts: noon, the late afternoon, and the night hour of StartTime.
StartHours == {12, 17}

\* The amounts of the events, in cents: 1500, 1500.50, 1000, 1000.01, 40.
Amounts == {150000, 150050, 100000, 100001, 4000}

\* A detector constructed at one of the start hours.
AmountInit ==
    /\ \E hour \in StartHours : now = 4 * DAY_S + hour * HOUR_S
    /\ initialized = FALSE
    /\ ticket_scan_cache = EmptyDict
    /\ user_transaction_cache = EmptyDict
    /\ device_user_cache = EmptyDict
    /\ ip_user_cache = EmptyDict
    /\ tx_history = EmptyDict
    /\ user_profiles = EmptyDict
    /\ rules = default_rules
    /\ enabled_rules = {default_rules[i].name : i \in DOMAIN default_rules}
    /\ ml_is_trained = FALSE
    /\ weights = DEFAULT_WEIGHTS
    /\ calibration_params = [score_shift |-> 0, score_scale |-> 100]
    /\ alerts = <<>>
    /\ stats = [total_checks |-> 0, blocked |-> 0, flagged |-> 0, alerts_generated |-> 0]
    /\ outcome = [kind |-> "none", result |-> NoResult]
    /\ call = NoCall
    /\ scan_log = EmptyDict
    /\ account_log = {}
    /\ feedback_buffer = <<>>
    /\ training = NoTraining
    /\ in_flight = <<>>
    /\ calls = 0
    /\ faulty_calls = 0
    /\ ticks = 0
    /\ probe = NoProbe

\* A purchase or a top-up with an amount and no metadata, scored by
\* check_transaction.
ScoreAmount ==
    /\ calls < MaxAmountCalls
    /\ \E amount \in Amounts, kind \in {"ticket_purchase", "cashless_topup"} :
        check_transaction(
            TransactionData("tx", "U1", "F1", kind, <<amount>>, now, None, None, EmptyDict),
            NoFault)

AmountNext ==
    \/ ScoreAmount
    \/ Pause

AmountSpec == AmountInit /\ [][AmountNext]_vars

\* The last call scored the first event of its user, with amount 1500 and
\* no metadata, in the daytime.
AmountOnly ==
    /\ calls = 1
    /\ call.data.amount = <<150000>>
    /\ call.data.metadata = EmptyDict
    /\ outcome.kind = "returned"

\* C22: for an event with amount 1500 and no other signals the amount
\* factor of the risk scorer is 80, and with the default weights the risk
\* score of the check_transaction result is above the FLAG threshold of 30.
C22_AmountFactorEighty ==
    AmountOnly =>
        /\ call.factors["amount"] = Pts(80)
        /\ outcome.result.risk_score > Pts(THRESHOLD_FLAG)

\* The last call scored the first event of its user, with amount 1500.50
\* and no metadata, in the daytime.
UnroundAmountOnly ==
    /\ calls = 1
    /\ call.data.amount = <<150050>>
    /\ call.data.metadata = EmptyDict
    /\ outcome.kind = "returned"

\* C22 as the scorer computes it: 1500 is above 1000, which gives 80, and is
\* a whole number above 50, which adds 10: the amount factor is 90, and it
\* is 80 for an amount such as 1500.50; in both cases the risk score of the
\* result is above the FLAG threshold of 30 with the default weights.
C22_AmountFactorNinety ==
    /\ AmountOnly =>
        /\ call.factors["amount"] = Pts(90)
        /\ outcome.result.risk_score > Pts(THRESHOLD_FLAG)
    /\ UnroundAmountOnly =>
        /\ call.factors["amount"] = Pts(80)
        /\ outcome.result.risk_score > Pts(THRESHOLD_FLAG)

\* A first purchase of 1500 at noon: amount factor 90, risk score 37.33,
\* flagged.
C22_Witness ==
    /\ AmountOnly
    /\ call.data.transaction_type = "ticket_purchase"
    /\ HourOf(call.at) = 12
    /\ call.factors["amount"] = Pts(90)
    /\ outcome.result.risk_score = 3733
    /\ outcome.result.action = "flag"

(***************************************************************************)
(* Reports handed to the pattern engine                                    *)
(***************************************************************************)

\* learn_from_report calls of one scenario.
MaxLearned == 103

\* The buffer lengths at which a scenario hands over an evidence whose
\* amount is a text.
UnreadableAt == {0, FEEDBACK_BATCH - 1}

\* The evidence of a report: none, or an amount written as a text.
LearnedEvidence ==
    {EmptyDict} \cup
    (IF Len(feedback_buffer) \in UnreadableAt
        /\ \A i \in DOMAIN feedback_buffer : feedback_buffer[i].evidence = EmptyDict
     THEN {"amount" :> Text("1500 EUR")} ELSE {})

\* The learn_from_report calls made so far.
Learned == IF probe = NoProbe THEN 0 ELSE probe.learned

\* PatternRecognizer.learn_from_report called for a report; probe keeps
\* what the call did: the size of the batch it trained on and whether it
\* raised.
LearnFromReport ==
    /\ Learned < MaxLearned
    /\ \E evidence \in LearnedEvidence :
       \E sklearn \in BOOLEAN :
       \E learned \in {learn_from_report(feedback_buffer, ml_is_trained,
                                         FraudType("payment_fraud"), evidence, sklearn)} :
        /\ feedback_buffer' = learned.feedback_buffer
        /\ ml_is_trained' = learned.ml_is_trained
        /\ probe' = [fn |-> "learn_from_report", learned |-> Learned + 1,
                     held |-> Len(feedback_buffer), trained_on |-> learned.trained_on,
                     raised |-> learned.raised]
    /\ UNCHANGED <<initialized, now, ticket_scan_cache, user_transaction_cache,
                   device_user_cache, ip_user_cache, tx_history, user_profiles, rules,
                   enabled_rules, weights, calibration_params, alerts, stats, outcome,
                   call, scan_log, account_log, training, in_flight, calls, faulty_calls,
                   ticks>>

LearnNext == LearnFromReport

LearnSpec == Init /\ [][LearnNext]_vars

\* C23: the feedback buffer grows by one entry per learn_from_report call;
\* a batch retrain is triggered exactly when the buffer reaches 100 entries
\* (never with fewer than 10), it trains on the whole buffered batch and
\* the buffer is empty afterwards, so the buffer holds fewer than 100
\* entries when the call returns.
C23_BufferBelowBatch ==
    probe.fn = "learn_from_report" =>
        /\ ~probe.raised => Len(feedback_buffer) < FEEDBACK_BATCH
        /\ IF probe.held + 1 = FEEDBACK_BATCH
           THEN probe.trained_on = FEEDBACK_BATCH /\ feedback_buffer = <<>>
           ELSE probe.trained_on = 0 /\ Len(feedback_buffer) = probe.held + 1


(***************************************************************************)
(* Rule matches and classifier predictions in one list                     *)
(***************************************************************************)

\* threshold = 0.3 of MLPatternRecognizer.predict, in hundredths.
PREDICT_THRESHOLD == 30

\* MLPatternRecognizer.predict after the features are scaled: proba is
\* predict_proba's row, proba[1] the probability of class 0 (normal), in
\* hundredths; a class without a label is a ticket resale.
predict(proba, pattern_labels, is_trained) ==
    IF ~is_trained THEN <<>>
    ELSE LET kept == SelectSeq([i \in DOMAIN proba |-> [class_idx |-> i - 1, prob |-> proba[i]]],
                               LAMBDA c : c.class_idx > 0 /\ c.prob > PREDICT_THRESHOLD)
         IN  [i \in DOMAIN kept |->
                [pattern_type |-> Get(pattern_labels, kept[i].class_idx, "ticket_resale"),
                 confidence |-> kept[i].prob]]

\* Rows of class probabilities, in hundredths.
ProbaRows ==
    {<<100>>, <<40, 60>>, <<30, 35, 35>>, <<10, 30, 60>>, <<0, 31, 31, 38>>,
     <<34, 33, 33>>, <<69, 31>>}

\* pattern_labels of the classifier: empty as train leaves it, or as loaded
\* from a saved model.
PatternLabelMaps ==
    {EmptyDict,
     (1 :> "price_manipulation") @@ (2 :> "bulk_purchase") @@ (3 :> "bulk_purchase"),
     (1 :> "bulk_purchase") @@ (2 :> "price_manipulation")}

\* PatternRecognizer.recognize_patterns for an event, with the classifier in
\* one of its states; probe keeps the rule matches, the class
\* probabilities and the list returned.
RecognizePatterns ==
    /\ probe = NoProbe
    /\ \E data \in PaymentEvents(now) \cup ScanEvents(now) :
       \E proba \in ProbaRows :
       \E pattern_labels \in PatternLabelMaps :
       \E is_trained \in BOOLEAN :
       \E rule_patterns \in {match(build_context(data, EmptyDict), rules, enabled_rules)} :
       \E predicted \in {predict(proba, pattern_labels, is_trained)} :
       \E out \in {recognize_patterns(data, EmptyDict, rules, enabled_rules, is_trained,
                                      predicted)} :
        probe' = [fn |-> "recognize_patterns", rule_patterns |-> rule_patterns,
                  proba |-> proba, pattern_labels |-> pattern_labels,
                  is_trained |-> is_trained, out |-> out]
    /\ UNCHANGED detector_vars

RecognizeNext ==
    \/ AddRule
    \/ RecognizePatterns

RecognizeSpec == Init /\ [][RecognizeNext]_vars

\* The pattern type predict gives a class.
TypeOfClass(class_idx) == Get(probe.pattern_labels, class_idx, "ticket_resale")

\* C25: in the list recognize_patterns returns the rule matches come first
\* and the classifier's patterns after them; a classifier's pattern stands
\* for a class other than 0 whose probability is above 0.3, and no other
\* entry of the list, rule match or classifier's, has its pattern type; a
\* class above 0.3 is left out only when its pattern type is in the list
\* already.
C25_ClassifierTypesOnce ==
    probe.fn = "recognize_patterns" =>
        LET out == probe.out
            n == Len(probe.rule_patterns)
        IN  /\ Len(out) >= n
            /\ SubSeq(out, 1, n) = probe.rule_patterns
            /\ \A j \in (n + 1)..Len(out) :
                /\ out[j].evidence = ("source" :> 0)
                /\ out[j].confidence > PREDICT_THRESHOLD
                /\ \E c \in 2..Len(probe.proba) :
                    /\ TypeOfClass(c - 1) = out[j].pattern_type
                    /\ probe.proba[c] = out[j].confidence
                /\ \A i \in DOMAIN out : i /= j => out[i].pattern_type /= out[j].pattern_type
            /\ probe.is_trained =>
                \A c \in 2..Len(probe.proba) :
                    probe.proba[c] > PREDICT_THRESHOLD =>
                        \E i \in DOMAIN out : out[i].pattern_type = TypeOfClass(c - 1)
            /\ ~probe.is_trained => Len(out) = n

\* A payment of 1500 matches the added rule for price manipulation; of the
\* three classes above 0.3 the first names price manipulation again and is
\* dropped, the two others name bulk purchase and one of them is kept.
C25_Witness ==
    /\ probe.fn = "recognize_patterns"
    /\ probe.is_trained
    /\ probe.proba = <<0, 31, 31, 38>>
    /\ Len(probe.rule_patterns) = 1
    /\ probe.rule_patterns[1].pattern_type = "price_manipulation"
    /\ Len(probe.out) = 2
    /\ probe.out[2].pattern_type = "bulk_purchase"
    /\ probe.out[2].confidence = 31


(***************************************************************************)
(* Rules added, enabled and disabled at run time                           *)
(***************************************************************************)

\* add_rule calls of one rule scenario.
MaxAddedRules == 2

\* The rules an operator adds: a rule for large payments, or the same rule
\* marked as disabled.
AddedRules ==
    {[rule EXCEPT !.enabled = e] : rule \in CustomRules, e \in BOOLEAN}

\* The rule names an operator enables and disables.
SwitchedRules == {"large_payment", "night_transaction_pattern"}

\* The contexts handed to match: a payment of 1500 or of 40 at noon, a first
\* payment of 1500 at three in the night, and a context without an amount.
MatchContexts ==
    {("amount" :> 150000) @@ ("hour" :> 12),
     ("amount" :> 4000) @@ ("hour" :> 12),
     ("amount" :> 150000) @@ ("hour" :> 3) @@ ("is_first_transaction" :> 1),
     ("hour" :> 3) @@ ("is_first_transaction" :> 1)}

\* The names disabled by disable_rule and not enabled by enable_rule since.
Disabled == IF probe = NoProbe THEN {} ELSE probe.disabled

\* What the rule scenario notes: the names that stay disabled, and the
\* context and the matches of a match call that has just returned.
MatcherNote(disabled, matched, context, out) ==
    [fn |-> "matcher", disabled |-> disabled, matched |-> matched, context |-> context,
     out |-> out]

rule_frame ==
    UNCHANGED <<initialized, now, ticket_scan_cache, user_transaction_cache,
                device_user_cache, ip_user_cache, tx_history, user_profiles,
                ml_is_trained, weights, calibration_params, alerts, stats, outcome, call,
                scan_log, account_log, feedback_buffer, training, in_flight, calls,
                faulty_calls, ticks>>

\* RuleBasedPatternMatcher.add_rule
add_rule(rule) ==
    /\ rules' = Append(rules, rule)
    /\ enabled_rules' = IF rule.enabled THEN enabled_rules \cup {rule.name}
                        ELSE enabled_rules
    /\ rule_frame

\* RuleBasedPatternMatcher.enable_rule
enable_rule(rule_name) ==
    /\ enabled_rules' = enabled_rules \cup {rule_name}
    /\ UNCHANGED rules
    /\ rule_frame

\* RuleBasedPatternMatcher.disable_rule
disable_rule(rule_name) ==
    /\ enabled_rules' = enabled_rules \ {rule_name}
    /\ UNCHANGED rules
    /\ rule_frame

\* An operator adds a rule, whatever rules there are.
AddAnyRule ==
    /\ Len(rules) < Len(default_rules) + MaxAddedRules
    /\ \E rule \in AddedRules : add_rule(rule)
    /\ probe' = MatcherNote(Disabled, FALSE, EmptyDict, <<>>)

EnableRule ==
    \E rule_name \in SwitchedRules :
        /\ enable_rule(rule_name)
        /\ probe' = MatcherNote(Disabled \ {rule_name}, FALSE, EmptyDict, <<>>)

DisableRule ==
    \E rule_name \in SwitchedRules :
        /\ disable_rule(rule_name)
        /\ probe' = MatcherNote(Disabled \cup {rule_name}, FALSE, EmptyDict, <<>>)

\* RuleBasedPatternMatcher.match called on a context.
Match ==
    /\ \E context \in MatchContexts :
        probe' = MatcherNote(Disabled, TRUE, context, match(context, rules, enabled_rules))
    /\ UNCHANGED detector_vars

RuleNext ==
    \/ AddAnyRule
    \/ EnableRule
    \/ DisableRule
    \/ Match

RuleSpec == Init /\ [][RuleNext]_vars

\* A condition of a rule is met by a context: the field is there and
\* satisfies the comparator.
Met(cond, context) ==
    /\ cond.field \in DOMAIN context
    /\ CASE cond.op \in {"gt"} -> context[cond.field] > cond.lo
         [] cond.op \in {"lt"} -> context[cond.field] < cond.lo
         [] cond.op \in {"gte"} -> context[cond.field] >= cond.lo
         [] cond.op \in {"lte"} -> context[cond.field] <= cond.lo
         [] cond.op \in {"eq", "is"} -> context[cond.field] = cond.lo
         [] OTHER -> cond.lo <= context[cond.field] /\ context[cond.field] <= cond.hi

\* The rules of the list that are enabled and met by the context of the
\* last match call.
RulesDue ==
    SelectSeq(rules, LAMBDA rule :
        /\ rule.name \in enabled_rules
        /\ \A i \in DOMAIN rule.conditions : Met(rule.conditions[i], probe.context))

\* The first half of C26: match returns a rule exactly when its name is
\* enabled and each of its conditions is met by the context.
MatchesExactlyDue ==
    (probe.fn = "matcher" /\ probe.matched) =>
        /\ Len(probe.out) = Len(RulesDue)
        /\ \A i \in DOMAIN probe.out : probe.out[i].name = RulesDue[i].name

\* C26: match returns a rule exactly when the rule is enabled and every
\* field named in its conditions is in the context and satisfies its
\* comparator; and after disable_rule(name) no match carries that name until
\* enable_rule(name) is called, however add_rule, enable_rule, disable_rule
\* and match are interleaved.
C26_DisabledUntilEnabled ==
    (probe.fn = "matcher" /\ probe.matched) =>
        /\ MatchesExactlyDue
        /\ \A i \in DOMAIN probe.out : probe.out[i].name \notin probe.disabled


(***************************************************************************)
(* The boost for detected fraud types                                      *)
(***************************************************************************)

\* A rule an operator adds for large amounts, reporting an abnormal
\* transaction.
LargeAmountRule ==
    Rule("large_amount", "price_manipulation", "abnormal_transaction",
         <<Cond("amount", "gt", 100000, 0)>>, "high")

\* The operator adds the rule for large amounts, once.
AddLargeAmountRule ==
    /\ \A i \in DOMAIN rules : rules[i].name /= LargeAmountRule.name
    /\ add_rule(LargeAmountRule)
    /\ UNCHANGED probe

\* Calibrated scores handed to the boost, in hundredths of a point.
CalibratedScores == {0, 2500, 6999, 7000, 8500, 9500, 10000}

\* Fraud-type lists handed to the boost: none to five distinct types, and
\* lists that name one type twice.
BoostLists ==
    FraudTypeLists
    \cup {<<FraudType("velocity_abuse"), FraudType("velocity_abuse")>>,
          <<FraudType("abnormal_transaction"), PatternFraudType("abnormal_transaction")>>,
          <<FraudType("multiple_accounts"), FraudType("velocity_abuse"),
            FraudType("abnormal_transaction"), FraudType("illegal_resale"),
            FraudType("duplicate_ticket")>>}

\* The boost and the clamp of calculate_score applied to a calibrated score
\* and a fraud-type list.
Boost ==
    /\ probe = NoProbe
    /\ \E calibrated_score \in CalibratedScores, fraud_types \in BoostLists :
        probe' = [fn |-> "boost", calibrated_score |-> calibrated_score,
                  fraud_types |-> fraud_types,
                  out |-> final_score(calibrated_score, fraud_types)]
    /\ UNCHANGED detector_vars

BoostNext ==
    \/ AddLargeAmountRule
    \/ ScoreAmount
    \/ Boost

BoostSpec == Init /\ [][BoostNext]_vars

\* The boost for a fraud-type list as C27 states it: 10 points per distinct
\* fraud type, at most 30.
DistinctBoost(fraud_types) ==
    Pts(Min(10 * Cardinality({FraudTypeValue(fraud_types[i]) : i \in DOMAIN fraud_types}), 30))

\* C27: the boost calculate_score adds to the calibrated score is 10 points
\* per distinct detected fraud type, capped at 30, two entries naming the
\* same fraud type counting once; the sum is clamped to 0..100.  Stated for
\* the boost applied to a score and a list, and for the score of a
\* check_transaction result.
C27_BoostPerDistinctType ==
    /\ probe.fn = "boost" =>
        probe.out = Max(0, Min(Pts(100),
                        probe.calibrated_score + DistinctBoost(probe.fraud_types)))
    /\ (calls > 0 /\ call.error = "none") =>
        outcome.result.risk_score
            = Max(0, Min(Pts(100),
                    apply_calibration(weighted_score(call.factors, weights),
                                      calibration_params)
                    + DistinctBoost(outcome.result.fraud_types)))

\* C27 with every entry of the list counted: what the code computes.
BoostPerEntry ==
    /\ probe.fn = "boost" =>
        probe.out = Max(0, Min(Pts(100),
                        probe.calibrated_score
                        + Pts(Min(10 * Len(probe.fraud_types), 30))))
    /\ (calls > 0 /\ call.error = "none") =>
        outcome.result.risk_score
            = Max(0, Min(Pts(100),
                    apply_calibration(weighted_score(call.factors, weights),
                                      calibration_params)
                    + Pts(Min(10 * Len(outcome.result.fraud_types), 30))))


(***************************************************************************)
(* The fraud types of a result                                             *)
(***************************************************************************)

\* C28: the fraud_types list of every check_transaction result names each
\* fraud type at most once, whichever sub-checks and pattern matches
\* reported it.
C28_FraudTypesNamedOnce ==
    calls > 0 =>
        \A i, j \in DOMAIN outcome.result.fraud_types :
            FraudTypeValue(outcome.result.fraud_types[i])
                = FraudTypeValue(outcome.result.fraud_types[j]) => i = j

\* C28 for enum members instead of names: no member of either FraudType
\* class is listed twice.
FraudTypeMembersOnce ==
    calls > 0 =>
        \A i, j \in DOMAIN outcome.result.fraud_types :
            outcome.result.fraud_types[i] = outcome.result.fraud_types[j] => i = j

(***************************************************************************)
(* The alert counter and the alert store                                   *)
(***************************************************************************)

AlertNext ==
    \/ CheckTransaction
    \/ CheckTransactionFaulty
    \/ ReportFraud
    \/ Retrain
    \/ Cleanup

AlertSpec == Init /\ [][AlertNext]_vars

\* C29: after any sequence of check_transaction, report_fraud, train and
\* cleanup calls the alerts_generated counter equals pending_alerts of
\* get_statistics, the number of stored alerts; a check_transaction call
\* adds one alert when its result has alert_required = true and none
\* otherwise.
C29_AlertsCounted ==
    /\ [](get_statistics.stats.alerts_generated = get_statistics.pending_alerts)
    /\ [][calls' = calls + 1 =>
            IF outcome'.result.alert_required
            THEN /\ Len(alerts') = Len(alerts) + 1
                 /\ SubSeq(alerts', 1, Len(alerts)) = alerts
                 /\ alerts'[Len(alerts')].transaction_id = call'.data.transaction_id
            ELSE alerts' = alerts]_vars

\* Reached: a staff report and a call whose result required an alert are
\* both stored and counted, a call that raised while generating its alert
\* added none, and the detector has been retrained.
C29_Witness ==
    /\ calls = 2
    /\ call.error = "alert"
    /\ ~outcome.result.alert_required
    /\ Len(ManualAlerts) = 1
    /\ Len(alerts) = 2
    /\ stats.alerts_generated = 2
    /\ training /= NoTraining

(***************************************************************************)
(* Concurrent calls on one event loop                                      *)
(***************************************************************************)

\* check_transaction calls of one concurrent scenario.
MaxInFlight == 2

\* A sub-check that awaits a remote lookup between its read and its write.
suspends_in_velocity(check) == check = 4

\* Whether a sub-check gives the event loop the chance to run another task
\* between reading its cache and writing it back.  The five sub-checks are
\* coroutines without an await on anything that suspends (detect, the one
\* coroutine awaited, awaits nothing itself), there is no thread and no
\* lock: each runs from its first line to its return in one piece.
suspends(check) == FALSE

\* The cache a sub-check reads.
cache_read(check) ==
    CASE check = 1 -> ticket_scan_cache
      [] check = 2 -> tx_history
      [] check = 3 -> [device |-> device_user_cache, ip |-> ip_user_cache]
      [] check = 4 -> user_transaction_cache
      [] OTHER -> EmptyDict

\* A sub-check run on the cache it has read.
sub_check(check, data, read, hash_seed) ==
    CASE check = 1 -> check_ticket_fraud(data, read, now)
      [] check = 2 -> check_transaction_anomalies(data, read, hash_seed)
      [] check = 3 -> check_multiple_accounts(data, read.device, read.ip)
      [] check = 4 -> check_velocity(data, read, now)
      [] OTHER -> check_geolocation(data) @@ ("cache" :> EmptyDict)

\* self._cache[key] = ...: the keys a sub-check has changed in what it read
\* are written to the cache as it is now.
written_back(cache, read, changed) ==
    [k \in DOMAIN cache \cup DOMAIN changed |->
        IF k \in DOMAIN changed /\ (k \notin DOMAIN read \/ changed[k] /= read[k])
        THEN changed[k] ELSE cache[k]]

\* The events of the concurrent calls: scans of one ticket and top-ups of
\* one user.
ConcurrentEvents ==
    {TransactionData("tx", "U1", "F1", "ticket_scan", <<>>, now, zone, "T1", EmptyDict) :
        zone \in Zones}
    \cup {TransactionData("tx", "U1", "F1", "cashless_topup", <<4000>>, now, None, None,
                          EmptyDict)}

\* check_transaction up to its await of asyncio.gather: the five sub-checks
\* are scheduled as tasks of the event loop.  noted is what an observer of
\* the call holds afterwards.
dispatch_noting(data, noted) ==
    /\ Len(in_flight) < MaxInFlight
    /\  in_flight' = Append(in_flight, [data |-> data, todo |-> SubChecks, held |-> EmptyDict,
                                        results |-> EmptyDict, raised |-> {},
                                        done |-> FALSE])
    /\ initialized' = TRUE
    /\ UNCHANGED <<now, ticket_scan_cache, user_transaction_cache, device_user_cache,
                   ip_user_cache, tx_history, user_profiles, rules, enabled_rules,
                   ml_is_trained, weights, calibration_params, alerts, stats, outcome, call,
                   scan_log, account_log, feedback_buffer, training, calls, faulty_calls,
                   ticks>>
    /\ probe' = noted

dispatch(data) == dispatch_noting(data, probe)

Dispatch == \E data \in ConcurrentEvents : dispatch(data)

\* The event loop runs a sub-check task of a call in flight: up to the point
\* where it suspends, holding what it has read, or else to its end.  noted is
\* what an observer of the call holds afterwards.
run_task_noting(i, check, noted) ==
    /\ i \in DOMAIN in_flight
    /\ check \in in_flight[i].todo
    /\ IF suspends(check) /\ check \notin DOMAIN in_flight[i].held
           THEN /\ in_flight' = [in_flight EXCEPT ![i].held = Update(@, check :> cache_read(check))]
                /\ UNCHANGED <<initialized, now, ticket_scan_cache, user_transaction_cache,
                               device_user_cache, ip_user_cache, tx_history, user_profiles,
                               rules, enabled_rules, ml_is_trained, weights,
                               calibration_params, alerts, stats, outcome, call, scan_log,
                               account_log, feedback_buffer, training, calls, faulty_calls,
                               ticks>>
           ELSE \E hash_seed \in HashSeeds :
                \E data \in {in_flight[i].data} :
                \E read \in {IF check \in DOMAIN in_flight[i].held
                             THEN in_flight[i].held[check] ELSE cache_read(check)} :
                \E ran \in {sub_check(check, data, read, hash_seed)} :
                   /\ ticket_scan_cache' =
                         IF check = 1 THEN written_back(ticket_scan_cache, read, ran.cache)
                         ELSE ticket_scan_cache
                   /\ tx_history' =
                         IF check = 2 THEN written_back(tx_history, read, ran.cache)
                         ELSE tx_history
                   /\ device_user_cache' =
                         IF check = 3
                         THEN written_back(device_user_cache, read.device, ran.cache.device)
                         ELSE device_user_cache
                   /\ ip_user_cache' =
                         IF check = 3 THEN written_back(ip_user_cache, read.ip, ran.cache.ip)
                         ELSE ip_user_cache
                   /\ user_transaction_cache' =
                         IF check = 4 THEN written_back(user_transaction_cache, read, ran.cache)
                         ELSE user_transaction_cache
                   /\ in_flight' = [in_flight EXCEPT
                                       ![i].todo = @ \ {check},
                                       ![i].results = Update(@, check :>
                                           [fraud_types |-> ran.fraud_types,
                                            details |-> ran.details])]
                   /\ UNCHANGED <<initialized, now, user_profiles, rules, enabled_rules,
                                  ml_is_trained, weights, calibration_params, alerts, stats,
                                  outcome, call, scan_log, account_log, feedback_buffer,
                                  training, calls, faulty_calls, ticks>>
    /\ probe' = noted

run_task(i, check) == run_task_noting(i, check, probe)

RunTask == \E i \in 1..MaxInFlight, check \in SubChecks : run_task(i, check)

\* A gather that returns the results in the order in which the sub-checks
\* settled, as the observer of the call has noted it.
gathered_as_completed(inflight) ==
    [k \in SubChecks |->
        IF probe.fn = "gather" /\ k \in DOMAIN probe.order
        THEN inflight.results[probe.order[k]]
        ELSE IF k \in DOMAIN inflight.results THEN inflight.results[k]
        ELSE [fraud_types |-> <<>>, details |-> EmptyDict]]

\* The list asyncio.gather returns, in dispatch order; a sub-check that has
\* not settled has no entry in it.
gathered(inflight) ==
    [k \in SubChecks |->
        IF k \in DOMAIN inflight.results THEN inflight.results[k]
        ELSE [fraud_types |-> <<>>, details |-> EmptyDict]]

\* A join that is over as soon as one sub-check has settled.
joined_on_first(inflight) == inflight.todo /= SubChecks

\* Whether the await of asyncio.gather is over for a call: gather waits for
\* all five sub-checks, whatever each returns or raises; it has no timeout
\* and cancels nothing.
joined(inflight) == inflight.todo = {}

\* check_transaction after its await of asyncio.gather, once its five
\* sub-checks have returned: the results are merged, patterns matched, the
\* risk fused, the action decided, the statistics and the alerts updated.
resume(i) ==
        /\ i \in DOMAIN in_flight
        /\ joined(in_flight[i])
        /\ ~in_flight[i].done
        /\ \E data \in {in_flight[i].data} :
           \E results \in {gathered(in_flight[i])} :
           \E merged \in {process_results([k \in SubChecks |->
                                Settled(k \in in_flight[i].raised, results[k])])} :
           \E patterns \in {recognize_patterns(data, merged.details, rules, enabled_rules,
                                               ml_is_trained, <<>>)} :
           \E fraud_types \in {merge_pattern_types(merged.fraud_types, patterns)} :
           \E risk_result \in {calculate_score(data, fraud_types,
                                   Get(merged.details, "anomaly_scores", EmptyDict),
                                   patterns, weights, calibration_params, user_profiles)} :
           \E result \in {normal_result(data, risk_result, fraud_types,
                                        determine_action(risk_result.score, fraud_types),
                                        merged.details, patterns)} :
           \E error \in {raised_in(data, NoFault, merged, result)} :
           \E counted \in {IF error \in {"none", "alert"} THEN update_stats(stats, result)
                           ELSE stats} :
            /\ stats' = IF error = "none" /\ result.alert_required
                        THEN [counted EXCEPT !.alerts_generated = @ + 1]
                        ELSE counted
            /\ alerts' = IF error = "none" /\ result.alert_required
                         THEN Append(alerts, generate_alert(data, result, now))
                         ELSE alerts
            /\ outcome' = check_outcome(data, error, result)
            /\ call' = [data |-> data, fault |-> NoFault, at |-> now, error |-> error,
                        ran |-> SubChecks,
                        checks |-> [k \in SubChecks |-> results[k]],
                        checked |-> merged.fraud_types,
                        factors |-> risk_result.factors]
            /\ calls' = calls + 1
            /\ in_flight' = [in_flight EXCEPT ![i].done = TRUE]
        /\ UNCHANGED <<initialized, now, ticket_scan_cache, user_transaction_cache,
                       device_user_cache, ip_user_cache, tx_history, user_profiles, rules,
                       enabled_rules, ml_is_trained, weights, calibration_params, scan_log,
                       account_log, feedback_buffer, training, faulty_calls, ticks, probe>>

Resume == \E i \in 1..MaxInFlight : resume(i)

ConcurrentNext ==
    \/ Dispatch
    \/ RunTask
    \/ Resume

ConcurrentSpec == Init /\ [][ConcurrentNext]_vars

(***************************************************************************)
(* The join of the five sub-checks                                         *)
(***************************************************************************)

\* check_transaction calls of one join scenario.
MaxJoined == 1

\* The sub-checks that raise in a join scenario.
MayRaise == {4}

\* A sub-check task raises before it has touched its cache; gather keeps the
\* exception as the task's result.
raise(i, check) ==
    /\ i \in DOMAIN in_flight
    /\ check \in in_flight[i].todo \cap MayRaise
    /\ check \notin DOMAIN in_flight[i].held
    /\ in_flight' = [in_flight EXCEPT
                        ![i].todo = @ \ {check},
                        ![i].raised = @ \cup {check},
                        ![i].results = Update(@, check :>
                            [fraud_types |-> <<>>, details |-> EmptyDict])]
    /\ UNCHANGED <<initialized, now, ticket_scan_cache, user_transaction_cache,
                   device_user_cache, ip_user_cache, tx_history, user_profiles, rules,
                   enabled_rules, ml_is_trained, weights, calibration_params, alerts,
                   stats, outcome, call, scan_log, account_log, feedback_buffer, training,
                   calls, faulty_calls, ticks, probe>>

Raise == \E i \in 1..MaxInFlight, check \in SubChecks : raise(i, check)

\* A call of a join scenario is dispatched.
JoinDispatch ==
    /\ Len(in_flight) < MaxJoined
    /\ Dispatch

JoinNext ==
    \/ JoinDispatch
    \/ RunTask
    \/ Raise
    \/ Resume

\* A call with sub-checks still to settle eventually has one of them
\* settle, by returning or by raising, and the event loop eventually resumes
\* a coroutine whose await is over.
JoinFairness ==
    /\ \A i \in 1..MaxInFlight :
        WF_vars(\E check \in SubChecks : run_task(i, check) \/ raise(i, check))
    /\ \A i \in 1..MaxInFlight : WF_vars(resume(i))

JoinSpec == Init /\ [][JoinNext]_vars /\ JoinFairness

\* C24: a check_transaction call eventually returns a result provided each
\* of its five sub-checks eventually settles, by returning or by raising;
\* the join waits for all five, so no result is produced while a sub-check
\* of the call has not settled.  Again and again every call dispatched so
\* far has returned, so each call returns after finitely many steps.
C24_ReturnsOnceAllSettled ==
    /\ []<>(\A i \in DOMAIN in_flight : in_flight[i].done)
    /\ [](\A i \in DOMAIN in_flight : in_flight[i].done => in_flight[i].todo = {})

\* A call for a scan has returned its result although its velocity check
\* raised: the four other sub-checks have all settled before.
C24_Witness ==
    /\ Len(in_flight) = 1
    /\ in_flight[1].done
    /\ in_flight[1].data.transaction_type = "ticket_scan"
    /\ in_flight[1].raised = MayRaise
    /\ DOMAIN in_flight[1].results = SubChecks
    /\ outcome.kind = "returned"
    /\ calls = 1

\* The caches the calls of order leave when they run one after another, each
\* to its end, from the caches a fresh detector has.
RECURSIVE InSequence(_, _)
InSequence(order, seeds) ==
    IF order = <<>>
    THEN [ticket |-> EmptyDict, history |-> EmptyDict, device |-> EmptyDict,
          ip |-> EmptyDict, user |-> EmptyDict]
    ELSE LET before == InSequence(SubSeq(order, 1, Len(order) - 1), seeds)
             data == in_flight[order[Len(order)]].data
             accounts == check_multiple_accounts(data, before.device, before.ip).cache
         IN  [ticket |-> check_ticket_fraud(data, before.ticket, now).cache,
              history |-> check_transaction_anomalies(data, before.history,
                                                      seeds[Len(order)]).cache,
              device |-> accounts.device,
              ip |-> accounts.ip,
              user |-> check_velocity(data, before.user, now).cache]

\* The orders in which the calls in flight can run one after another.
Orders ==
    {order \in [DOMAIN in_flight -> DOMAIN in_flight] :
        \A i, j \in DOMAIN in_flight : i /= j => order[i] /= order[j]}

AllReturned ==
    /\ Len(in_flight) = MaxInFlight
    /\ \A i \in DOMAIN in_flight : in_flight[i].done

\* C18: when several check_transaction calls for the same user or the same
\* ticket run concurrently on one detector, no appended entry is lost: once
\* they have all returned, each cache holds what some sequential order of
\* the calls leaves in it.
C18_NoLostUpdate ==
    AllReturned =>
        /\ \E order \in Orders : ticket_scan_cache = InSequence(order, <<0, 0>>).ticket
        /\ \E order \in Orders : tx_history = InSequence(order, <<0, 0>>).history
        /\ \E order \in Orders : device_user_cache = InSequence(order, <<0, 0>>).device
        /\ \E order \in Orders : ip_user_cache = InSequence(order, <<0, 0>>).ip
        /\ \E order \in Orders : user_transaction_cache = InSequence(order, <<0, 0>>).user

\* Two scans of one ticket at different gates, and two top-ups of one user,
\* ran with their sub-checks interleaved and both entries are in the cache.
C18_Witness ==
    /\ AllReturned
    /\ \/ /\ in_flight[1].data.transaction_type = "ticket_scan"
          /\ in_flight[2].data.transaction_type = "ticket_scan"
          /\ in_flight[1].data.zone_id /= in_flight[2].data.zone_id
          /\ Len(ticket_scan_cache["T1"]) = 2
          /\ ticket_scan_cache["T1"][1].zone = in_flight[2].data.zone_id
       \/ /\ in_flight[1].data.transaction_type = "cashless_topup"
          /\ in_flight[2].data.transaction_type = "cashless_topup"
          /\ Len(user_transaction_cache["U1"]) = 2


(***************************************************************************)
(* Dispatch order and completion order                                     *)
(***************************************************************************)

\* Users who pay from the shared device before the observed call.
MaxArrivals == 3

\* A small payment from the shared device by the next user, scored by a
\* check_transaction call that runs to its end.
Arrive ==
    /\ in_flight = <<>>
    /\ calls < MaxArrivals
    /\ check_transaction(
           TransactionData("tx", UserNames[calls + 1], "F1", "cashless_payment", <<500>>,
                           now, None, None, EmptyDict),
           NoFault)

\* The events of the observed call: a small payment, a large top-up and a
\* large purchase from a new device by the next user of the shared device.
OrderEvents ==
    {TransactionData("tx", UserNames[calls + 1], "F1", "cashless_payment", <<500>>, now,
                     None, None, EmptyDict),
     TransactionData("tx", UserNames[calls + 1], "F1", "cashless_topup", <<100001>>, now,
                     None, None, EmptyDict),
     TransactionData("tx", UserNames[calls + 1], "F1", "ticket_purchase", <<150000>>, now,
                     None, None, RiskyMetadata)}

\* The observed call is dispatched; its observer notes the caches its
\* sub-checks are about to read and that none has settled yet.
OrderDispatch ==
    /\ in_flight = <<>>
    /\ \E data \in OrderEvents :
        dispatch_noting(data, [fn |-> "gather",
                               caches |-> [k \in SubChecks |-> cache_read(k)],
                               order |-> <<>>])

\* A sub-check of the observed call settles, in any order the event loop
\* may pick; the observer notes which.
Settle ==
    \E i \in 1..MaxInFlight, check \in SubChecks :
        /\ probe.fn = "gather"
        /\ run_task_noting(i, check, [probe EXCEPT !.order = Append(@, check)])

OrderNext ==
    \/ Arrive
    \/ OrderDispatch
    \/ Settle
    \/ Resume

OrderSpec == Init /\ [][OrderNext]_vars

\* The fraud types and the merged details of a call whose five sub-checks
\* run one after another in dispatch order on the caches given.
InDispatchOrder(data, caches, hash_seed) ==
    LET merged == process_results(
                     [k \in SubChecks |->
                         Settled(FALSE, sub_check(k, data, caches[k], hash_seed))])
        patterns == recognize_patterns(data, merged.details, rules, enabled_rules,
                                       ml_is_trained, <<>>)
    IN  [fraud_types |-> merge_pattern_types(merged.fraud_types, patterns),
         details |-> merged.details]

\* The observed call has returned.
Observed ==
    /\ probe.fn = "gather"
    /\ Len(in_flight) = 1
    /\ in_flight[1].done

\* C30: the order of the fraud types and the merged details of a
\* check_transaction result are those of the five sub-checks taken in
\* dispatch order (ticket, anomaly, multiple accounts, velocity,
\* geolocation), in whichever order they completed; so the primary fraud
\* type of the alert, the first entry of fraud_types or suspicious behaviour
\* for an empty list, is the same for every completion order.
C30_DispatchOrderDecides ==
    Observed =>
        \E hash_seed \in HashSeeds :
            LET expected == InDispatchOrder(in_flight[1].data, probe.caches, hash_seed)
            IN  /\ outcome.result.fraud_types = expected.fraud_types
                /\ outcome.result.details = expected.details
                /\ outcome.result.alert_required =>
                      alerts[Len(alerts)].fraud_type
                          = IF expected.fraud_types = <<>>
                            THEN FraudType("suspicious_behavior")
                            ELSE expected.fraud_types[1]

\* Reached: the fourth user of the shared device made a large purchase; the
\* sub-checks settled in the reverse of their dispatch order, the fan-out
\* check before the anomaly check, and yet the anomaly check's fraud type
\* comes first in the result and is the primary type of the alert.
C30_Witness ==
    /\ Observed
    /\ probe.order = <<5, 4, 3, 2, 1>>
    /\ Len(outcome.result.fraud_types) >= 2
    /\ outcome.result.fraud_types[Len(outcome.result.fraud_types)]
          = FraudType("multiple_accounts")
    /\ outcome.result.fraud_types[1] /= FraudType("multiple_accounts")
    /\ outcome.result.alert_required
    /\ alerts[Len(alerts)].fraud_type = outcome.result.fraud_types[1]

====
